---- MODULE Spec2Model ----
(***************************************************************************)
(* Model of TrianglesInstancingLayer (src/unnamed/part_003): one layer of  *)
(* instanced triangle meshes, its portions, its CPU staging arrays, its    *)
(* GPU buffers, its aggregate counters and its draw-pass guards.           *)
(***************************************************************************)
EXTENDS Integers, Sequences, FiniteSets, TLC

\* ------------------------------------------------------------------ bounds

\* Most portions created in one layer.
MaxPortions == 2
\* Most calls on one layer besides the createPortion and finalize calls that
\* succeed and the one initFlags call each portion of a finalized layer gets.
MaxCalls == 1
\* Most destroy calls on one layer.
MaxDestroys == 2
\* Most triangles in the base geometry a ray is tested against.
MaxTriangles == 2

\* The longest input string of parseFloats
MaxLen == 4

\* Most nodes in a document given to parse, the root element included
MaxNodes == 3

\* Most subpaths of a path given to createShapes
MaxSubPaths == 2

\* Most points of a polyline given to pointsToStrokeWithBuffers
MaxPoints == 3

\* Most calls of the loader plugin's load
MaxLoads == 2

\* The most processes the busy counter shows before the first call of load
MaxProcesses == 1

\* ------------------------------------------------------------- foundations

\* null and undefined; a value that may be null is <<v>> when it is not
NULL == <<>>
Some(v) == <<v>>
Val(o) == o[1]

\* math.MAX_DOUBLE, the magnitude of a collapsed boundary
MAX_DOUBLE == 1000

\* ENTITY_FLAGS: a flags word is modelled as the set of the bits set in it,
\* so that (flags & ENTITY_FLAGS.X) is membership of X.
ENTITY_FLAGS == {"VISIBLE", "CULLED", "PICKABLE", "CLIPPABLE", "COLLIDABLE",
                 "EDGES", "XRAYED", "HIGHLIGHTED", "SELECTED"}

\* RENDER_PASSES: the pass selectors stored in the flags buffer (PICK_ is
\* RENDER_PASSES.PICK, a reserved word here)
RENDER_PASSES ==
    [NOT_RENDERED |-> 0, COLOR_OPAQUE |-> 1, COLOR_TRANSPARENT |-> 2,
     SILHOUETTE_HIGHLIGHTED |-> 3, SILHOUETTE_SELECTED |-> 4,
     SILHOUETTE_XRAYED |-> 5, EDGES_COLOR_OPAQUE |-> 6,
     EDGES_COLOR_TRANSPARENT |-> 7, EDGES_HIGHLIGHTED |-> 8,
     EDGES_SELECTED |-> 9, EDGES_XRAYED |-> 10, PICK_ |-> 11]

\* 4x4 matrices are flat column-major tuples of 16 numbers, as in math.mat4()
Identity == <<1,0,0,0, 0,1,0,0, 0,0,1,0, 0,0,0,1>>
Translation(x, y, z) == <<1,0,0,0, 0,1,0,0, 0,0,1,0, x,y,z,1>>
Mirror == <<-1,0,0,0, 0,1,0,0, 0,0,-1,0, 0,0,0,1>>

\* The matrices callers hand to createPortion here; closed under inversion.
Matrices == {Identity, Translation(-3, 2, 5), Translation(3, -2, -5), Mirror}

\* math.transposeMat4
transposeMat4(m) ==
    [i \in 1..16 |-> m[4 * ((i - 1) % 4) + ((i - 1) \div 4) + 1]]

\* math.mulMat4: column-major product a * b
mulMat4(a, b) ==
    [i \in 1..16 |->
        LET r == (i - 1) % 4
            c == (i - 1) \div 4
        IN  a[r + 1] * b[4 * c + 1] + a[r + 5] * b[4 * c + 2]
            + a[r + 9] * b[4 * c + 3] + a[r + 13] * b[4 * c + 4]]

\* math.inverseMat4: the matrix whose product with m is the identity
inverseMat4(m) ==
    CHOOSE n \in {transposeMat4(x) : x \in Matrices} \cup Matrices :
        mulMat4(m, n) = Identity

\* math.transformPoint4: m * p for a 4-vector p
transformPoint4(m, p) ==
    << m[1] * p[1] + m[5] * p[2] + m[9] * p[3] + m[13] * p[4],
       m[2] * p[1] + m[6] * p[2] + m[10] * p[3] + m[14] * p[4],
       m[3] * p[1] + m[7] * p[2] + m[11] * p[3] + m[15] * p[4],
       m[4] * p[1] + m[8] * p[2] + m[12] * p[3] + m[16] * p[4] >>

Min(a, b) == IF a < b THEN a ELSE b
Max(a, b) == IF a > b THEN a ELSE b

\* math.collapseAABB3: the empty boundary
collapseAABB3 ==
    <<MAX_DOUBLE, MAX_DOUBLE, MAX_DOUBLE, -MAX_DOUBLE, -MAX_DOUBLE, -MAX_DOUBLE>>

\* math.expandAABB3Point3: grow a boundary to hold a point
expandAABB3Point3(aabb, p) ==
    << Min(aabb[1], p[1]), Min(aabb[2], p[2]), Min(aabb[3], p[3]),
       Max(aabb[4], p[1]), Max(aabb[5], p[2]), Max(aabb[6], p[3]) >>

\* math.expandAABB3: grow a boundary to hold another
expandAABB3(aabb1, aabb2) ==
    << Min(aabb1[1], aabb2[1]), Min(aabb1[2], aabb2[2]), Min(aabb1[3], aabb2[3]),
       Max(aabb1[4], aabb2[4]), Max(aabb1[5], aabb2[5]), Max(aabb1[6], aabb2[6]) >>

\* math.subVec3, math.addVec3
subVec3(u, v) == <<u[1] - v[1], u[2] - v[2], u[3] - v[3]>>
addVec3(u, v) == <<u[1] + v[1], u[2] + v[2], u[3] + v[3]>>

\* math.lenVec3, on vectors whose length is a whole number
lenVec3(v) ==
    LET sq == v[1] * v[1] + v[2] * v[2] + v[3] * v[3]
    IN  CHOOSE n \in 0..sq : n * n <= sq /\ (n + 1) * (n + 1) > sq

\* math.transformPoint3: m * (p, 1)
transformPoint3(m, p) ==
    LET q == transformPoint4(m, <<p[1], p[2], p[3], 1>>) IN <<q[1], q[2], q[3]>>

\* math.transformVec3: the rotation part of m applied to a direction
transformVec3(m, v) ==
    LET q == transformPoint4(m, <<v[1], v[2], v[3], 0>>) IN <<q[1], q[2], q[3]>>

\* math.normalizeVec3
normalizeVec3(v) ==
    LET len == lenVec3(v)
    IN  IF len = 0 THEN v ELSE <<v[1] \div len, v[2] \div len, v[3] \div len>>

\* math.transformRay: the ray's origin as a point, its direction as a vector
transformRay(m, ray) ==
    [origin |-> transformPoint3(m, ray.origin),
     dir |-> normalizeVec3(transformVec3(m, ray.dir))]

\* math.rayTriangleIntersect for rays along the x axis: the point where the
\* ray's line meets the triangle, before or behind the ray origin, or NULL
rayTriangleIntersect(ray, triangle) ==
    IF triangle = NULL \/ ray.dir[1] = 0 THEN NULL
    ELSE LET t == (Val(triangle) - ray.origin[1]) * ray.dir[1]
         IN  Some(<<ray.origin[1] + t * ray.dir[1], ray.origin[2] + t * ray.dir[2],
                    ray.origin[3] + t * ray.dir[3]>>)

\* math.triangleNormal: the triangles here all face down the x axis
triangleNormal(triangle) == <<-1, 0, 0>>

\* ArrayBuf.setData(data, offset): overwrite the items of a buffer from item
\* offset on with data, leaving every other item as it was
setData(buf, data, offset) ==
    [i \in 1..Len(buf) |->
        IF i - 1 >= offset /\ i - 1 < offset + Len(data)
        THEN data[i - offset] ELSE buf[i]]

\* ------------------------------------------------------------------ inputs

\* cfg.geometry.obb: the 8 corners of the base geometry's box, as 4-vectors
GeometryOBB ==
    << <<0,0,0,1>>, <<1,0,0,1>>, <<0,2,0,1>>, <<1,2,0,1>>,
       <<0,0,1,1>>, <<1,0,1,1>>, <<0,2,1,1>>, <<1,2,1,1>> >>

\* The constructor's cfg with the scene switches the layer reads: with and
\* without normals, UVs, textures, entity offsets and a coordinate origin.
LayerCfgs ==
    { [normalsBuf |-> TRUE, uvBuf |-> TRUE,
       textureSet |-> Some([colorTexture |-> TRUE,
                                metallicRoughnessTexture |-> TRUE]),
       entityOffsetsEnabled |-> TRUE, pickSurfacePrecisionEnabled |-> TRUE,
       solid |-> TRUE, origin |-> <<10, 0, 0>>, triangles |-> <<Some(4), NULL>>],
      [normalsBuf |-> FALSE, uvBuf |-> FALSE, textureSet |-> NULL,
       entityOffsetsEnabled |-> FALSE, pickSurfacePrecisionEnabled |-> FALSE,
       solid |-> FALSE, origin |-> <<0, 0, 0>>, triangles |-> <<Some(4), NULL>>] }

\* Where a triangle of the base geometry crosses the line of the pick rays, as
\* a local x coordinate, or NULL for a triangle the line misses
Crossings == {NULL, Some(-2), Some(1), Some(2)}

\* Every base geometry of up to MaxTriangles triangles
RECURSIVE TriangleLists(_)
TriangleLists(n) ==
    IF n = 0 THEN {<<>>}
    ELSE LET shorter == TriangleLists(n - 1)
         IN  shorter \cup {Append(l, c) : l \in {x \in shorter : Len(x) = n - 1},
                                          c \in Crossings}

\* Layers for precise picking: any base geometry with the switch on, one with
\* the switch off
PickCfgs ==
    { [normalsBuf |-> TRUE, uvBuf |-> FALSE, textureSet |-> NULL,
       entityOffsetsEnabled |-> FALSE, pickSurfacePrecisionEnabled |-> TRUE,
       solid |-> TRUE, origin |-> <<10, 0, 0>>, triangles |-> l] :
      l \in TriangleLists(MaxTriangles) }
    \cup
    { [normalsBuf |-> TRUE, uvBuf |-> FALSE, textureSet |-> NULL,
       entityOffsetsEnabled |-> FALSE, pickSurfacePrecisionEnabled |-> FALSE,
       solid |-> TRUE, origin |-> <<10, 0, 0>>, triangles |-> <<Some(1)>>] }

\* Every combination of geometry normals, geometry UVs and texture set: none,
\* or one with or without a color and a metallic-roughness texture
CapabilityCfgs ==
    { [normalsBuf |-> n, uvBuf |-> uv, textureSet |-> t,
       entityOffsetsEnabled |-> FALSE, pickSurfacePrecisionEnabled |-> FALSE,
       solid |-> TRUE, origin |-> <<0, 0, 0>>, triangles |-> <<Some(4), NULL>>] :
      n \in BOOLEAN, uv \in BOOLEAN,
      t \in {NULL} \cup { Some([colorTexture |-> c, metallicRoughnessTexture |-> mr]) :
                           c \in BOOLEAN, mr \in BOOLEAN } }

\* The portion descriptions handed to createPortion
PortionCfgs ==
    << [color |-> <<255, 0, 0, 255>>, metallic |-> NULL, roughness |-> NULL,
        opacity |-> 255, meshMatrix |-> Identity, worldMatrix |-> NULL,
        pickColor |-> <<1, 0, 0, 0>>],
       [color |-> <<0, 128, 0, 255>>, metallic |-> Some(10), roughness |-> Some(20),
        opacity |-> 128, meshMatrix |-> Translation(-3, 2, 5),
        worldMatrix |-> Some(Mirror), pickColor |-> <<2, 0, 0, 0>>],
       [color |-> <<0, 0, 64, 255>>, metallic |-> Some(0), roughness |-> NULL,
        opacity |-> 255, meshMatrix |-> Mirror, worldMatrix |-> NULL,
        pickColor |-> <<3, 0, 0, 0>>] >>

\* The description the n-th createPortion call gets when a model is loaded
\* in a fixed order
NthPortionCfg(n) == PortionCfgs[(n % Len(PortionCfgs)) + 1]

\* ------------------------------------------------------------------- state

VARIABLES
    cfg,            \* the constructor's cfg: geometry, texture set, scene switches
    finalized,      \* _finalized
    portions,       \* _portions
    numPortions,    \* _numPortions
    counts,         \* _numVisibleLayerPortions .. _numCulledLayerPortions
    model,          \* the owning model's numPortions and num*LayerPortions
    cpu,            \* the CPU-side staging arrays _colors .. _modelNormalMatrixCol2
    state,          \* _state: numInstances, the GPU buffers, the capability flags
    aabb,           \* aabb
    tempUint8Vec4,  \* the module's scratch Uint8Array(4)
    entity,         \* per portion, the flags word and transparency its owner passed last
    early,          \* a mutator or initFlags was called before finalize
    last,           \* the most recent call and what it did
    calls,          \* number of budgeted calls made so far
    gpu,            \* how often each buffer was created, and how often destroyed
    svg             \* the SVG loader's call in progress: its input and its outcome

vars == <<cfg, finalized, portions, numPortions, counts, model, cpu, state,
          aabb, tempUint8Vec4, entity, early, last, calls, gpu, svg>>

\* The variables of the layer
layerVars == <<cfg, finalized, portions, numPortions, counts, model, cpu, state,
               aabb, tempUint8Vec4, entity, early, last, calls, gpu>>

\* The GPU buffers of _state
Buffers ==
    {"colorsBuf", "metallicRoughnessBuf", "flagsBuf", "flags2Buf", "offsetsBuf",
     "modelMatrixCol0Buf", "modelMatrixCol1Buf", "modelMatrixCol2Buf",
     "modelNormalMatrixCol0Buf", "modelNormalMatrixCol1Buf",
     "modelNormalMatrixCol2Buf", "pickColorsBuf"}

\* The counter each flag is tallied in (meshTransparent is tallied as TRANSPARENT)
CounterOf ==
    [VISIBLE |-> "numVisibleLayerPortions",
     HIGHLIGHTED |-> "numHighlightedLayerPortions",
     XRAYED |-> "numXRayedLayerPortions",
     SELECTED |-> "numSelectedLayerPortions",
     CLIPPABLE |-> "numClippableLayerPortions",
     EDGES |-> "numEdgesLayerPortions",
     PICKABLE |-> "numPickableLayerPortions",
     CULLED |-> "numCulledLayerPortions",
     TRANSPARENT |-> "numTransparentLayerPortions"]

CountedFlags == DOMAIN CounterOf

ZeroCounts == [f \in {CounterOf[x] : x \in CountedFlags} |-> 0]

\* What a call that issues no draw call and throws nothing reports
Quiet(op, k) ==
    [op |-> op, k |-> k, threw |-> FALSE, ret |-> NULL, draws |-> <<>>,
     gl |-> <<>>, freed |-> {}, log |-> NULL, args |-> <<>>,
     out |-> [worldSurfacePos |-> NULL, worldNormal |-> NULL]]

Threw(op, k) == [Quiet(op, k) EXCEPT !.threw = TRUE]

\* constructor
InitLayer(cfgs) ==
    /\ cfg \in cfgs
    /\ finalized = FALSE
    /\ portions = <<>>
    /\ numPortions = 0
    /\ counts = ZeroCounts
    /\ model = [numPortions |-> 0, counts |-> ZeroCounts]
    /\ cpu = [colors |-> <<>>, metallicRoughness |-> <<>>, pickColors |-> <<>>,
              offsets |-> <<>>,
              modelMatrixCol0 |-> <<>>, modelMatrixCol1 |-> <<>>,
              modelMatrixCol2 |-> <<>>,
              modelNormalMatrixCol0 |-> <<>>, modelNormalMatrixCol1 |-> <<>>,
              modelNormalMatrixCol2 |-> <<>>]
    /\ state = [numInstances |-> 0,
                colorsBuf |-> NULL, metallicRoughnessBuf |-> NULL,
                flagsBuf |-> NULL, flags2Buf |-> NULL, offsetsBuf |-> NULL,
                modelMatrixCol0Buf |-> NULL, modelMatrixCol1Buf |-> NULL,
                modelMatrixCol2Buf |-> NULL,
                modelNormalMatrixCol0Buf |-> NULL, modelNormalMatrixCol1Buf |-> NULL,
                modelNormalMatrixCol2Buf |-> NULL,
                pickColorsBuf |-> NULL,
                pbrSupported |-> FALSE, colorTextureSupported |-> FALSE]
    /\ aabb = collapseAABB3
    /\ tempUint8Vec4 = <<0, 0, 0, 0>>
    /\ entity = <<>>
    /\ early = FALSE
    /\ last = Quiet("constructor", -1)
    /\ calls = 0
    /\ gpu = [created |-> [b \in Buffers |-> 0], destroyed |-> [b \in Buffers |-> 0],
              destroys |-> 0]

\* No call of the SVG loader in progress
Idle == [op |-> "none", in |-> <<>>, out |-> NULL]

\* A layer after construction, the SVG loader idle
InitWith(cfgs) == InitLayer(cfgs) /\ svg = Idle

\* The layer after construction
Init == InitWith(LayerCfgs)

\* The portion's world boundary computed by createPortion: the box corners
\* through meshMatrix and, when given, worldMatrix, then moved by the origin.
RECURSIVE ExpandByOBB(_, _, _, _)
ExpandByOBB(worldAABB, p, i, obb) ==
    IF i > Len(obb) THEN worldAABB
    ELSE LET tempVec4b == transformPoint4(p.meshMatrix, obb[i])
             point == IF p.worldMatrix # NULL
                      THEN transformPoint4(Val(p.worldMatrix), tempVec4b)
                      ELSE tempVec4b
         IN  ExpandByOBB(expandAABB3Point3(worldAABB, point), p, i + 1, obb)

PortionWorldAABB(p, origin) ==
    LET w == ExpandByOBB(collapseAABB3, p, 1, GeometryOBB)
    IN  << w[1] + origin[1], w[2] + origin[2], w[3] + origin[3],
           w[4] + origin[1], w[5] + origin[2], w[6] + origin[3] >>

\* What createPortion overwrites in place of growing the layer boundary
CreatePortionAABB_Overwrite(old, worldAABB) == worldAABB

\* The value of this.aabb after createPortion
CreatePortionAABB(old, worldAABB) == expandAABB3(old, worldAABB)

\* An id taken after the portion was counted
CreatePortionId_AfterCount(ps, n) == n + 1

\* The id createPortion returns: the length of _portions before the push
CreatePortionId(ps, n) == Len(ps)

\* A createPortion that never refuses
CreatePortionRejects_Never(fin) == FALSE

\* createPortion refuses a finalized layer before it writes anything
CreatePortionRejects(fin) == fin

\* createPortion(cfg)
CreatePortion(p) ==
    IF CreatePortionRejects(finalized)
    THEN /\ calls < MaxCalls
         /\ calls' = calls + 1
         /\ last' = Threw("createPortion", -1)
         /\ UNCHANGED <<cfg, gpu, svg, finalized, portions, numPortions, counts, model,
                        cpu, state, aabb, tempUint8Vec4, entity, early>>
    ELSE /\ numPortions < MaxPortions
         /\ LET m == p.meshMatrix
                normalMatrix == inverseMat4(transposeMat4(m))
            IN  cpu' = [cpu EXCEPT
                    !.colors = @ \o <<p.color[1], p.color[2], p.color[3], p.opacity>>,
                    !.metallicRoughness = @ \o
                        << IF p.metallic # NULL THEN Val(p.metallic) ELSE 0,
                           IF p.roughness # NULL THEN Val(p.roughness) ELSE 255 >>,
                    !.offsets = IF cfg.entityOffsetsEnabled
                                THEN @ \o <<0, 0, 0>> ELSE @,
                    !.modelMatrixCol0 = @ \o <<m[1], m[5], m[9], m[13]>>,
                    !.modelMatrixCol1 = @ \o <<m[2], m[6], m[10], m[14]>>,
                    !.modelMatrixCol2 = @ \o <<m[3], m[7], m[11], m[15]>>,
                    !.modelNormalMatrixCol0 = IF cfg.normalsBuf
                        THEN @ \o <<normalMatrix[1], normalMatrix[5],
                                    normalMatrix[9], normalMatrix[13]>> ELSE @,
                    !.modelNormalMatrixCol1 = IF cfg.normalsBuf
                        THEN @ \o <<normalMatrix[2], normalMatrix[6],
                                    normalMatrix[10], normalMatrix[14]>> ELSE @,
                    !.modelNormalMatrixCol2 = IF cfg.normalsBuf
                        THEN @ \o <<normalMatrix[3], normalMatrix[7],
                                    normalMatrix[11], normalMatrix[15]>> ELSE @,
                    !.pickColors = @ \o p.pickColor]
         /\ aabb' = CreatePortionAABB(aabb, PortionWorldAABB(p, cfg.origin))
         /\ state' = [state EXCEPT !.numInstances = @ + 1]
         /\ portions' = Append(portions,
                IF cfg.pickSurfacePrecisionEnabled
                THEN [matrix |-> Some(p.meshMatrix), inverseMatrix |-> NULL,
                      normalMatrix |-> NULL]
                ELSE [matrix |-> NULL, inverseMatrix |-> NULL, normalMatrix |-> NULL])
         /\ numPortions' = numPortions + 1
         /\ model' = [model EXCEPT !.numPortions = @ + 1]
         /\ entity' = Append(entity, [flags |-> {}, transparent |-> FALSE,
                                      inited |-> FALSE])
         /\ last' = [Quiet("createPortion", -1) EXCEPT
                        !.ret = Some(CreatePortionId(portions, numPortions))]
         /\ UNCHANGED <<cfg, gpu, svg, finalized, counts, tempUint8Vec4, early, calls>>

\* new ArrayBuf(..., data, ...) when the staging array is not empty
NewBuf(data) == IF Len(data) > 0 THEN Some(data) ELSE NULL

\* new Uint8Array(n): n zero bytes
Zeros(n) == [i \in 1..n |-> 0]

\* A finalize that never refuses
FinalizeRejects_Never(fin) == FALSE

\* finalize refuses a finalized layer before it creates anything
FinalizeRejects(fin) == fin

\* The buffers finalize creates with new ArrayBuf: one for each staging array
\* that is not empty
FinalizeCreates ==
    (IF Len(cpu.colors) > 0 THEN {"colorsBuf", "flagsBuf", "flags2Buf"} ELSE {})
    \cup (IF Len(cpu.metallicRoughness) > 0 THEN {"metallicRoughnessBuf"} ELSE {})
    \cup (IF cfg.entityOffsetsEnabled /\ Len(cpu.offsets) > 0
          THEN {"offsetsBuf"} ELSE {})
    \cup (IF Len(cpu.modelMatrixCol0) > 0
          THEN {"modelMatrixCol0Buf", "modelMatrixCol1Buf", "modelMatrixCol2Buf"}
               \cup (IF cfg.normalsBuf
                     THEN {"modelNormalMatrixCol0Buf", "modelNormalMatrixCol1Buf",
                           "modelNormalMatrixCol2Buf"}
                     ELSE {})
          ELSE {})
    \cup (IF Len(cpu.pickColors) > 0 THEN {"pickColorsBuf"} ELSE {})

\* A capability flag that does not ask for the metallic/roughness buffer
FinalizePbrSupported_NoBufferTest(metallicRoughnessBuf, c) ==
    /\ c.uvBuf
    /\ c.normalsBuf
    /\ c.textureSet # NULL
    /\ Val(c.textureSet).colorTexture
    /\ Val(c.textureSet).metallicRoughnessTexture

\* this._state.pbrSupported = !!state.metallicRoughnessBuf && !!geometry.uvBuf && ...
FinalizePbrSupported(metallicRoughnessBuf, c) ==
    /\ metallicRoughnessBuf # NULL
    /\ c.uvBuf
    /\ c.normalsBuf
    /\ c.textureSet # NULL
    /\ Val(c.textureSet).colorTexture
    /\ Val(c.textureSet).metallicRoughnessTexture

\* this._state.colorTextureSupported = !!geometry.uvBuf && !!geometry.normalsBuf && ...
FinalizeColorTextureSupported(c) ==
    /\ c.uvBuf
    /\ c.normalsBuf
    /\ c.textureSet # NULL
    /\ Val(c.textureSet).colorTexture

\* finalize()
Finalize ==
    IF FinalizeRejects(finalized)
    THEN /\ calls < MaxCalls
         /\ calls' = calls + 1
         /\ last' = Threw("finalize", -1)
         /\ UNCHANGED <<cfg, gpu, svg, finalized, portions, numPortions, counts, model,
                        cpu, state, aabb, tempUint8Vec4, entity, early>>
    ELSE /\ LET colorsLength == Len(cpu.colors)
                flagsLength == colorsLength
                hasMatrices == Len(cpu.modelMatrixCol0) > 0
                hasNormals == hasMatrices /\ cfg.normalsBuf
                hasOffsets == cfg.entityOffsetsEnabled /\ Len(cpu.offsets) > 0
                metallicRoughnessBuf == NewBuf(cpu.metallicRoughness)
            IN  /\ state' = [state EXCEPT
                        !.colorsBuf = IF colorsLength > 0 THEN Some(cpu.colors) ELSE @,
                        !.metallicRoughnessBuf =
                            IF metallicRoughnessBuf # NULL
                            THEN metallicRoughnessBuf ELSE @,
                        !.flagsBuf = IF flagsLength > 0
                                     THEN Some(Zeros(flagsLength)) ELSE @,
                        !.flags2Buf = IF flagsLength > 0
                                      THEN Some(Zeros(flagsLength)) ELSE @,
                        !.offsetsBuf = IF hasOffsets THEN Some(cpu.offsets) ELSE @,
                        !.modelMatrixCol0Buf =
                            IF hasMatrices THEN Some(cpu.modelMatrixCol0) ELSE @,
                        !.modelMatrixCol1Buf =
                            IF hasMatrices THEN Some(cpu.modelMatrixCol1) ELSE @,
                        !.modelMatrixCol2Buf =
                            IF hasMatrices THEN Some(cpu.modelMatrixCol2) ELSE @,
                        !.modelNormalMatrixCol0Buf =
                            IF hasNormals THEN Some(cpu.modelNormalMatrixCol0) ELSE @,
                        !.modelNormalMatrixCol1Buf =
                            IF hasNormals THEN Some(cpu.modelNormalMatrixCol1) ELSE @,
                        !.modelNormalMatrixCol2Buf =
                            IF hasNormals THEN Some(cpu.modelNormalMatrixCol2) ELSE @,
                        !.pickColorsBuf =
                            IF Len(cpu.pickColors) > 0 THEN Some(cpu.pickColors) ELSE @,
                        !.pbrSupported =
                            FinalizePbrSupported(metallicRoughnessBuf, cfg),
                        !.colorTextureSupported =
                            FinalizeColorTextureSupported(cfg)]
                /\ cpu' = [cpu EXCEPT
                        !.colors = <<>>,
                        !.offsets = IF hasOffsets THEN <<>> ELSE @,
                        !.modelMatrixCol0 = <<>>,
                        !.modelMatrixCol1 = <<>>,
                        !.modelMatrixCol2 = <<>>,
                        !.modelNormalMatrixCol0 = IF hasNormals THEN <<>> ELSE @,
                        !.modelNormalMatrixCol1 = IF hasNormals THEN <<>> ELSE @,
                        !.modelNormalMatrixCol2 = IF hasNormals THEN <<>> ELSE @,
                        !.pickColors = <<>>]
         /\ gpu' = [gpu EXCEPT !.created =
                        [b \in Buffers |-> @[b] + IF b \in FinalizeCreates THEN 1 ELSE 0]]
         /\ finalized' = TRUE
         /\ last' = Quiet("finalize", -1)
         /\ UNCHANGED <<cfg, svg, portions, numPortions, counts, model, aabb,
                        tempUint8Vec4, entity, early, calls>>

\* ---------------------------------------------------------------- mutators

\* The ids of the portions created so far
PortionIds == 0 .. (numPortions - 1)

\* The colors handed to setColor and the offsets handed to setOffset
Colors == { <<9, 8, 7, 6>>, <<255, 255, 255, 255>> }
Offsets == { <<-4, 0, 6>> }

\* The flags words and transparencies handed to initFlags
InitInputs ==
    { [flags |-> {"VISIBLE", "PICKABLE", "CLIPPABLE", "EDGES"}, transparent |-> FALSE],
      [flags |-> {"VISIBLE", "CULLED", "XRAYED", "HIGHLIGHTED", "SELECTED"},
       transparent |-> TRUE] }

\* A store into a Uint8Array element
ToUint8(x) == x % 256

\* A buffer offset that forgets the item size
PortionOffset_Unscaled(portionId, itemSize) == portionId

\* portionId * 4 (colors, flags) or portionId * 3 (offsets): where a portion's
\* items start in a per-instance buffer
PortionOffset(portionId, itemSize) == portionId * itemSize

\* if (flags & ENTITY_FLAGS.X) { n++ } else { n-- }, on the layer's counter and
\* on the model's alike
CountFlag(c, flag, set) ==
    [c EXCEPT ![CounterOf[flag]] = IF set THEN @ + 1 ELSE @ - 1]

\* The emphasis-fill byte with highlighted tested before selected
EmphasisFill_HighlightedFirst(visible, culled, selected, highlighted, xrayed) ==
    IF ~visible \/ culled THEN RENDER_PASSES.NOT_RENDERED
    ELSE IF highlighted THEN RENDER_PASSES.SILHOUETTE_HIGHLIGHTED
    ELSE IF selected THEN RENDER_PASSES.SILHOUETTE_SELECTED
    ELSE IF xrayed THEN RENDER_PASSES.SILHOUETTE_XRAYED
    ELSE RENDER_PASSES.NOT_RENDERED

\* _setFlags, f1: the emphasis-fill byte
EmphasisFill(visible, culled, selected, highlighted, xrayed) ==
    IF ~visible \/ culled THEN RENDER_PASSES.NOT_RENDERED
    ELSE IF selected THEN RENDER_PASSES.SILHOUETTE_SELECTED
    ELSE IF highlighted THEN RENDER_PASSES.SILHOUETTE_HIGHLIGHTED
    ELSE IF xrayed THEN RENDER_PASSES.SILHOUETTE_XRAYED
    ELSE RENDER_PASSES.NOT_RENDERED

\* The four bytes with selected portions dropped from the normal fill pass and
\* the pick byte ignoring culling
SetFlagsBytes_Slip(flags, meshTransparent) ==
    LET visible == "VISIBLE" \in flags
        xrayed == "XRAYED" \in flags
        highlighted == "HIGHLIGHTED" \in flags
        selected == "SELECTED" \in flags
        edges == "EDGES" \in flags
        pickable == "PICKABLE" \in flags
        culled == "CULLED" \in flags
        f0 == IF ~visible \/ culled \/ xrayed \/ selected
              THEN RENDER_PASSES.NOT_RENDERED
              ELSE IF meshTransparent THEN RENDER_PASSES.COLOR_TRANSPARENT
              ELSE RENDER_PASSES.COLOR_OPAQUE
        f1 == EmphasisFill(visible, culled, selected, highlighted, xrayed)
        f2 == IF ~visible \/ culled THEN RENDER_PASSES.NOT_RENDERED
              ELSE IF selected THEN RENDER_PASSES.EDGES_SELECTED
              ELSE IF highlighted THEN RENDER_PASSES.EDGES_HIGHLIGHTED
              ELSE IF xrayed THEN RENDER_PASSES.EDGES_XRAYED
              ELSE IF edges
                   THEN IF meshTransparent
                        THEN RENDER_PASSES.EDGES_COLOR_TRANSPARENT
                        ELSE RENDER_PASSES.EDGES_COLOR_OPAQUE
              ELSE RENDER_PASSES.NOT_RENDERED
        f3 == IF visible /\ pickable
              THEN RENDER_PASSES.PICK_ ELSE RENDER_PASSES.NOT_RENDERED
    IN  <<f0, f1, f2, f3>>

\* _setFlags: the four pass-selector bytes f0, f1, f2, f3 of a flags word
SetFlagsBytes(flags, meshTransparent) ==
    LET visible == "VISIBLE" \in flags
        xrayed == "XRAYED" \in flags
        highlighted == "HIGHLIGHTED" \in flags
        selected == "SELECTED" \in flags
        edges == "EDGES" \in flags
        pickable == "PICKABLE" \in flags
        culled == "CULLED" \in flags
        f0 == IF ~visible \/ culled \/ xrayed
              THEN RENDER_PASSES.NOT_RENDERED
              ELSE IF meshTransparent THEN RENDER_PASSES.COLOR_TRANSPARENT
              ELSE RENDER_PASSES.COLOR_OPAQUE
        f1 == EmphasisFill(visible, culled, selected, highlighted, xrayed)
        f2 == IF ~visible \/ culled THEN RENDER_PASSES.NOT_RENDERED
              ELSE IF selected THEN RENDER_PASSES.EDGES_SELECTED
              ELSE IF highlighted THEN RENDER_PASSES.EDGES_HIGHLIGHTED
              ELSE IF xrayed THEN RENDER_PASSES.EDGES_XRAYED
              ELSE IF edges
                   THEN IF meshTransparent
                        THEN RENDER_PASSES.EDGES_COLOR_TRANSPARENT
                        ELSE RENDER_PASSES.EDGES_COLOR_OPAQUE
              ELSE RENDER_PASSES.NOT_RENDERED
        f3 == IF visible /\ ~culled /\ pickable
              THEN RENDER_PASSES.PICK_ ELSE RENDER_PASSES.NOT_RENDERED
    IN  <<f0, f1, f2, f3>>

\* _setFlags2: the scratch vector with its first byte set to the clippable byte
SetFlags2Bytes(temp, flags) ==
    [temp EXCEPT ![1] = IF "CLIPPABLE" \in flags THEN 255 ELSE 0]

\* A write that does not look at the buffer reference first
WriteBuf_Unguarded(st, buf, data, offset) ==
    [st EXCEPT ![buf] = Some(IF @ # NULL THEN setData(Val(@), data, offset)
                             ELSE data)]

\* buf.setData(data, offset) behind its own null check: if (state.buf) { ... }
WriteBuf(st, buf, data, offset) ==
    IF st[buf] # NULL
    THEN [st EXCEPT ![buf] = Some(setData(Val(@), data, offset))]
    ELSE st

\* The flags word of portion k with one bit set or cleared by its owner
WithBit(k, flag, set) ==
    IF set THEN entity[k + 1].flags \cup {flag} ELSE entity[k + 1].flags \ {flag}

\* The owner's record of what it passed last
Passed(k, flags, transparent) ==
    [entity EXCEPT ![k + 1] = [flags |-> flags, transparent |-> transparent,
                               inited |-> @.inited]]

\* if (!this._finalized) { throw "Not finalized"; }
MutatorRejects(fin) == ~fin

\* setVisible .. setCulled: the check, the counter, then _setFlags or _setFlags2
FlagMutator(op, flag, k, set, viaFlags2) ==
    LET flags == WithBit(k, flag, set)
        transparent == entity[k + 1].transparent
    IN  /\ calls < MaxCalls
        /\ calls' = calls + 1
        /\ entity' = Passed(k, flags, transparent)
        /\ IF MutatorRejects(finalized)
           THEN /\ last' = Threw(op, k)
                /\ early' = TRUE
                /\ UNCHANGED <<cfg, gpu, svg, finalized, portions, numPortions, counts,
                               model, cpu, state, aabb, tempUint8Vec4>>
           ELSE /\ counts' = CountFlag(counts, flag, set)
                /\ model' = [model EXCEPT !.counts = CountFlag(@, flag, set)]
                /\ tempUint8Vec4' =
                      IF viaFlags2 THEN SetFlags2Bytes(tempUint8Vec4, flags)
                      ELSE SetFlagsBytes(flags, transparent)
                /\ state' = WriteBuf(state,
                                IF viaFlags2 THEN "flags2Buf" ELSE "flagsBuf",
                                tempUint8Vec4', PortionOffset(k, 4))
                /\ last' = Quiet(op, k)
                /\ UNCHANGED <<cfg, gpu, svg, finalized, portions, numPortions, cpu, aabb,
                               early>>

SetVisible(k, set) == FlagMutator("setVisible", "VISIBLE", k, set, FALSE)
SetHighlighted(k, set) == FlagMutator("setHighlighted", "HIGHLIGHTED", k, set, FALSE)
SetXRayed(k, set) == FlagMutator("setXRayed", "XRAYED", k, set, FALSE)
SetSelected(k, set) == FlagMutator("setSelected", "SELECTED", k, set, FALSE)
SetEdges(k, set) == FlagMutator("setEdges", "EDGES", k, set, FALSE)
SetCulled(k, set) == FlagMutator("setCulled", "CULLED", k, set, FALSE)
SetClippable(k, set) == FlagMutator("setClippable", "CLIPPABLE", k, set, TRUE)
SetPickable(k, set) == FlagMutator("setPickable", "PICKABLE", k, set, TRUE)

\* setCollidable(portionId, flags): the check and nothing else
SetCollidable(k, set) ==
    /\ calls < MaxCalls
    /\ calls' = calls + 1
    /\ entity' = Passed(k, WithBit(k, "COLLIDABLE", set), entity[k + 1].transparent)
    /\ last' = IF MutatorRejects(finalized)
               THEN Threw("setCollidable", k) ELSE Quiet("setCollidable", k)
    /\ early' = (early \/ ~finalized)
    /\ UNCHANGED <<cfg, gpu, svg, finalized, portions, numPortions, counts, model, cpu,
                   state, aabb, tempUint8Vec4>>

\* setTransparent(portionId, flags, transparent): counts first, and only
\* _setFlags checks that the layer is finalized
SetTransparent(k, transparent) ==
    LET flags == entity[k + 1].flags
    IN  /\ calls < MaxCalls
        /\ calls' = calls + 1
        /\ entity' = Passed(k, flags, transparent)
        /\ counts' = CountFlag(counts, "TRANSPARENT", transparent)
        /\ model' = [model EXCEPT !.counts = CountFlag(@, "TRANSPARENT", transparent)]
        /\ IF MutatorRejects(finalized)
           THEN /\ last' = Threw("setTransparent", k)
                /\ early' = TRUE
                /\ UNCHANGED <<state, tempUint8Vec4>>
           ELSE /\ tempUint8Vec4' = SetFlagsBytes(flags, transparent)
                /\ state' = WriteBuf(state, "flagsBuf", tempUint8Vec4',
                                     PortionOffset(k, 4))
                /\ early' = early
                /\ last' = Quiet("setTransparent", k)
        /\ UNCHANGED <<cfg, gpu, svg, finalized, portions, numPortions, cpu, aabb>>

\* initFlags: one increment for each flag set in the word
InitCounts(c, flags, meshTransparent) ==
    LET set == (flags \cap CountedFlags)
               \cup (IF meshTransparent THEN {"TRANSPARENT"} ELSE {})
    IN  [f \in DOMAIN c |->
            IF \E x \in set : CounterOf[x] = f THEN c[f] + 1 ELSE c[f]]

\* initFlags(portionId, flags, meshTransparent): counts first, then _setFlags
\* and _setFlags2, each of which checks that the layer is finalized
InitFlags(k, flags, meshTransparent) ==
    /\ ~entity[k + 1].inited
    /\ IF finalized THEN calls' = calls
       ELSE calls < MaxCalls /\ calls' = calls + 1
    /\ entity' = [entity EXCEPT ![k + 1] =
                     [flags |-> flags, transparent |-> meshTransparent,
                      inited |-> TRUE]]
    /\ counts' = InitCounts(counts, flags, meshTransparent)
    /\ model' = [model EXCEPT !.counts = InitCounts(@, flags, meshTransparent)]
    /\ IF MutatorRejects(finalized)
       THEN /\ last' = Threw("initFlags", k)
            /\ early' = TRUE
            /\ UNCHANGED <<state, tempUint8Vec4>>
       ELSE /\ tempUint8Vec4' =
                  SetFlags2Bytes(SetFlagsBytes(flags, meshTransparent), flags)
            /\ state' = WriteBuf(
                            WriteBuf(state, "flagsBuf",
                                     SetFlagsBytes(flags, meshTransparent),
                                     PortionOffset(k, 4)),
                            "flags2Buf", tempUint8Vec4', PortionOffset(k, 4))
            /\ early' = early
            /\ last' = Quiet("initFlags", k)
    /\ UNCHANGED <<cfg, gpu, svg, finalized, portions, numPortions, cpu, aabb>>

\* setColor(portionId, color)
SetColor(k, color) ==
    /\ calls < MaxCalls
    /\ calls' = calls + 1
    /\ IF MutatorRejects(finalized)
       THEN /\ last' = Threw("setColor", k)
            /\ UNCHANGED <<state, tempUint8Vec4>>
       ELSE /\ tempUint8Vec4' = [i \in 1..4 |-> ToUint8(color[i])]
            /\ state' = WriteBuf(state, "colorsBuf", tempUint8Vec4',
                                 PortionOffset(k, 4))
            /\ last' = Quiet("setColor", k)
    /\ early' = (early \/ ~finalized)
    /\ UNCHANGED <<cfg, gpu, svg, finalized, portions, numPortions, counts, model, cpu,
                   aabb, entity>>

\* setOffset(portionId, offset)
SetOffset(k, offset) ==
    /\ calls < MaxCalls
    /\ calls' = calls + 1
    /\ IF MutatorRejects(finalized)
       THEN /\ last' = Threw("setOffset", k)
            /\ UNCHANGED state
       ELSE IF ~cfg.entityOffsetsEnabled
       THEN /\ last' = [Quiet("setOffset", k) EXCEPT
                           !.ret = Some("Entity#offset not enabled for this Viewer")]
            /\ UNCHANGED state
       ELSE /\ state' = WriteBuf(state, "offsetsBuf", offset, PortionOffset(k, 3))
            /\ last' = Quiet("setOffset", k)
    /\ early' = (early \/ ~finalized)
    /\ UNCHANGED <<cfg, gpu, svg, finalized, portions, numPortions, counts, model, cpu,
                   aabb, tempUint8Vec4, entity>>

\* ------------------------------------------------------------ draw passes

\* The frame context handed to a draw method: its feature toggles and the
\* backfaces render state it carries
FrameCtxs ==
    [withSAO : BOOLEAN, pbrEnabled : BOOLEAN, colorTextureEnabled : BOOLEAN,
     backfaces : BOOLEAN]

\* The frame contexts handed to the draw methods that read only backfaces
BackfaceFrameCtxs ==
    {f \in FrameCtxs : ~f.withSAO /\ ~f.pbrEnabled /\ ~f.colorTextureEnabled}

\* The owning model's switches read by the draw methods
ModelSwitches ==
    { [saoEnabled |-> TRUE, pbrEnabled |-> TRUE, colorTextureEnabled |-> TRUE,
       backfaces |-> FALSE],
      [saoEnabled |-> FALSE, pbrEnabled |-> FALSE, colorTextureEnabled |-> TRUE,
       backfaces |-> TRUE] }

\* A guard that asks for both conditions before it skips
NothingToDraw_Both(c, n) ==
    c.numCulledLayerPortions = n /\ c.numVisibleLayerPortions = 0

\* The guard every draw method starts with:
\* _numCulledLayerPortions === _numPortions || _numVisibleLayerPortions === 0
NothingToDraw(c, n) ==
    c.numCulledLayerPortions = n \/ c.numVisibleLayerPortions = 0

\* _updateBackfaceCull: the gl calls it makes
updateBackfaceCull(sectioned, frameCtx, switches) ==
    LET backfaces == switches.backfaces \/ ~cfg.solid \/ sectioned
    IN  IF frameCtx.backfaces # backfaces
        THEN IF backfaces THEN <<"disable(CULL_FACE)">> ELSE <<"enable(CULL_FACE)">>
        ELSE <<>>

\* The variant picked with the color-texture test before the PBR test
ColorOpaqueRenderer_TextureFirst(frameCtx, switches) ==
    LET family == IF frameCtx.withSAO /\ switches.saoEnabled THEN "WithSAO" ELSE ""
    IN  IF frameCtx.colorTextureEnabled /\ switches.colorTextureEnabled
           /\ state.colorTextureSupported
        THEN "colorTextureRenderer" \o family
        ELSE IF frameCtx.pbrEnabled /\ switches.pbrEnabled /\ cfg.normalsBuf
        THEN "colorQualityRenderer" \o family
        ELSE IF cfg.normalsBuf THEN "colorRenderer" \o family
        ELSE "flatColorRenderer" \o family

\* drawColorOpaque: the renderer variant it picks
ColorOpaqueRenderer(frameCtx, switches) ==
    IF frameCtx.withSAO /\ switches.saoEnabled
    THEN IF frameCtx.pbrEnabled /\ switches.pbrEnabled /\ cfg.normalsBuf
         THEN "colorQualityRendererWithSAO"
         ELSE IF frameCtx.colorTextureEnabled /\ switches.colorTextureEnabled
                 /\ state.colorTextureSupported
         THEN "colorTextureRendererWithSAO"
         ELSE IF cfg.normalsBuf THEN "colorRendererWithSAO"
         ELSE "flatColorRendererWithSAO"
    ELSE IF frameCtx.pbrEnabled /\ switches.pbrEnabled /\ cfg.normalsBuf
         THEN "colorQualityRenderer"
         ELSE IF frameCtx.colorTextureEnabled /\ switches.colorTextureEnabled
                 /\ state.colorTextureSupported
         THEN "colorTextureRenderer"
         ELSE IF cfg.normalsBuf THEN "colorRenderer"
         ELSE "flatColorRenderer"

\* drawColorTransparent: the renderer variant it picks
ColorTransparentRenderer(frameCtx, switches) ==
    IF frameCtx.pbrEnabled /\ switches.pbrEnabled /\ cfg.normalsBuf
    THEN "colorQualityRenderer"
    ELSE IF cfg.normalsBuf THEN "colorRenderer" ELSE "flatColorRenderer"

\* The tests a draw method's guard adds to the one they all start with
PassSkips(op, c, n) ==
    CASE op \in {"drawColorOpaque", "drawDepth", "drawNormals"} ->
            \/ c.numTransparentLayerPortions = n
            \/ c.numXRayedLayerPortions = n
      [] op = "drawColorTransparent" ->
            \/ c.numTransparentLayerPortions = 0
            \/ c.numXRayedLayerPortions = n
      [] op \in {"drawSilhouetteXRayed", "drawEdgesXRayed"} ->
            c.numXRayedLayerPortions = 0
      [] op \in {"drawSilhouetteHighlighted", "drawEdgesHighlighted"} ->
            c.numHighlightedLayerPortions = 0
      [] op \in {"drawSilhouetteSelected", "drawEdgesSelected"} ->
            c.numSelectedLayerPortions = 0
      [] op \in {"drawEdgesColorOpaque", "drawEdgesColorTransparent"} ->
            c.numEdgesLayerPortions = 0
      [] OTHER -> FALSE

\* The guards with drawColorOpaque's test on the transparent count in every
\* draw method
DrawSkips_AllTransparent(op, c, n) ==
    NothingToDraw(c, n) \/ PassSkips(op, c, n) \/ c.numTransparentLayerPortions = n

\* The guard of a draw method: whether it returns before it draws
DrawSkips(op, c, n) == NothingToDraw(c, n) \/ PassSkips(op, c, n)

\* The pass constant a draw method hands to drawLayer
RenderPassOf(op) ==
    CASE op \in {"drawColorOpaque", "drawDepth", "drawNormals", "drawOcclusion",
                 "drawShadow"} -> RENDER_PASSES.COLOR_OPAQUE
      [] op = "drawColorTransparent" -> RENDER_PASSES.COLOR_TRANSPARENT
      [] op = "drawSilhouetteXRayed" -> RENDER_PASSES.SILHOUETTE_XRAYED
      [] op = "drawSilhouetteHighlighted" -> RENDER_PASSES.SILHOUETTE_HIGHLIGHTED
      [] op = "drawSilhouetteSelected" -> RENDER_PASSES.SILHOUETTE_SELECTED
      [] op = "drawEdgesColorOpaque" -> RENDER_PASSES.EDGES_COLOR_OPAQUE
      [] op = "drawEdgesColorTransparent" -> RENDER_PASSES.EDGES_COLOR_TRANSPARENT
      [] op = "drawEdgesXRayed" -> RENDER_PASSES.EDGES_XRAYED
      [] op = "drawEdgesHighlighted" -> RENDER_PASSES.EDGES_HIGHLIGHTED
      [] op = "drawEdgesSelected" -> RENDER_PASSES.EDGES_SELECTED
      [] op \in {"drawPickMesh", "drawPickDepths", "drawPickNormals"} ->
            RENDER_PASSES.PICK_

\* The body shared by the draw methods: the guard, the backface update where
\* the method has one, and one drawLayer call on the renderer when it exists
DrawPassOn(op, skip, gl, renderer, pass, args) ==
    /\ calls < MaxCalls
    /\ calls' = calls + 1
    /\ \E exists \in BOOLEAN :
          last' = IF skip THEN Quiet(op, -1)
                  ELSE [Quiet(op, -1) EXCEPT
                           !.args = args,
                           !.gl = gl,
                           !.draws = IF exists
                                     THEN <<[renderer |-> renderer, pass |-> pass]>>
                                     ELSE <<>>]
    /\ UNCHANGED <<cfg, gpu, svg, finalized, portions, numPortions, counts, model, cpu,
                   state, aabb, tempUint8Vec4, entity, early>>

\* A draw method whose arguments are not looked at afterwards
DrawPass(op, skip, gl, renderer, pass) ==
    DrawPassOn(op, skip, gl, renderer, pass, <<>>)

\* drawColorOpaque without the test on the transparent count
DrawColorOpaque_NoTransparentTest(sectioned, frameCtx, switches) ==
    DrawPassOn("drawColorOpaque",
               \/ NothingToDraw(counts, numPortions)
               \/ counts.numXRayedLayerPortions = numPortions,
               updateBackfaceCull(sectioned, frameCtx, switches),
               ColorOpaqueRenderer(frameCtx, switches), RENDER_PASSES.COLOR_OPAQUE,
               <<frameCtx, switches>>)

\* drawColorOpaque: skipped as well when every portion is transparent or
\* every portion is xrayed
DrawColorOpaque(sectioned, frameCtx, switches) ==
    DrawPassOn("drawColorOpaque",
               DrawSkips("drawColorOpaque", counts, numPortions),
               updateBackfaceCull(sectioned, frameCtx, switches),
               ColorOpaqueRenderer(frameCtx, switches),
               RenderPassOf("drawColorOpaque"),
               <<frameCtx, switches>>)

DrawColorTransparent(sectioned, frameCtx, switches) ==
    DrawPass("drawColorTransparent",
             DrawSkips("drawColorTransparent", counts, numPortions),
             updateBackfaceCull(sectioned, frameCtx, switches),
             ColorTransparentRenderer(frameCtx, switches),
             RenderPassOf("drawColorTransparent"))

DrawDepth(sectioned, frameCtx, switches) ==
    DrawPass("drawDepth",
             DrawSkips("drawDepth", counts, numPortions),
             updateBackfaceCull(sectioned, frameCtx, switches),
             "depthRenderer", RenderPassOf("drawDepth"))

DrawNormals(sectioned, frameCtx, switches) ==
    DrawPass("drawNormals",
             DrawSkips("drawNormals", counts, numPortions),
             updateBackfaceCull(sectioned, frameCtx, switches),
             "normalsRenderer", RenderPassOf("drawNormals"))

DrawSilhouetteXRayed(sectioned, frameCtx, switches) ==
    DrawPass("drawSilhouetteXRayed",
             DrawSkips("drawSilhouetteXRayed", counts, numPortions),
             updateBackfaceCull(sectioned, frameCtx, switches),
             "silhouetteRenderer", RenderPassOf("drawSilhouetteXRayed"))

DrawSilhouetteHighlighted(sectioned, frameCtx, switches) ==
    DrawPass("drawSilhouetteHighlighted",
             DrawSkips("drawSilhouetteHighlighted", counts, numPortions),
             updateBackfaceCull(sectioned, frameCtx, switches),
             "silhouetteRenderer", RenderPassOf("drawSilhouetteHighlighted"))

DrawSilhouetteSelected(sectioned, frameCtx, switches) ==
    DrawPass("drawSilhouetteSelected",
             DrawSkips("drawSilhouetteSelected", counts, numPortions),
             updateBackfaceCull(sectioned, frameCtx, switches),
             "silhouetteRenderer", RenderPassOf("drawSilhouetteSelected"))

DrawEdgesColorOpaque ==
    DrawPass("drawEdgesColorOpaque",
             DrawSkips("drawEdgesColorOpaque", counts, numPortions),
             <<>>, "edgesColorRenderer", RenderPassOf("drawEdgesColorOpaque"))

DrawEdgesColorTransparent ==
    DrawPass("drawEdgesColorTransparent",
             DrawSkips("drawEdgesColorTransparent", counts, numPortions),
             <<>>, "edgesColorRenderer", RenderPassOf("drawEdgesColorTransparent"))

DrawEdgesXRayed ==
    DrawPass("drawEdgesXRayed",
             DrawSkips("drawEdgesXRayed", counts, numPortions),
             <<>>, "edgesRenderer", RenderPassOf("drawEdgesXRayed"))

DrawEdgesHighlighted ==
    DrawPass("drawEdgesHighlighted",
             DrawSkips("drawEdgesHighlighted", counts, numPortions),
             <<>>, "edgesRenderer", RenderPassOf("drawEdgesHighlighted"))

DrawEdgesSelected ==
    DrawPass("drawEdgesSelected",
             DrawSkips("drawEdgesSelected", counts, numPortions),
             <<>>, "edgesRenderer", RenderPassOf("drawEdgesSelected"))

DrawOcclusion(sectioned, frameCtx, switches) ==
    DrawPass("drawOcclusion",
             DrawSkips("drawOcclusion", counts, numPortions),
             updateBackfaceCull(sectioned, frameCtx, switches),
             "occlusionRenderer", RenderPassOf("drawOcclusion"))

DrawShadow(sectioned, frameCtx, switches) ==
    DrawPass("drawShadow",
             DrawSkips("drawShadow", counts, numPortions),
             updateBackfaceCull(sectioned, frameCtx, switches),
             "shadowRenderer", RenderPassOf("drawShadow"))

DrawPickMesh(sectioned, frameCtx, switches) ==
    DrawPass("drawPickMesh",
             DrawSkips("drawPickMesh", counts, numPortions),
             updateBackfaceCull(sectioned, frameCtx, switches),
             "pickMeshRenderer", RenderPassOf("drawPickMesh"))

DrawPickDepths(sectioned, frameCtx, switches) ==
    DrawPass("drawPickDepths",
             DrawSkips("drawPickDepths", counts, numPortions),
             updateBackfaceCull(sectioned, frameCtx, switches),
             "pickDepthRenderer", RenderPassOf("drawPickDepths"))

DrawPickNormals(sectioned, frameCtx, switches) ==
    DrawPass("drawPickNormals",
             DrawSkips("drawPickNormals", counts, numPortions),
             updateBackfaceCull(sectioned, frameCtx, switches),
             "pickNormalsRenderer", RenderPassOf("drawPickNormals"))

\* The names of the draw methods
DrawOps ==
    {"drawColorOpaque", "drawColorTransparent", "drawDepth", "drawNormals",
     "drawSilhouetteXRayed", "drawSilhouetteHighlighted", "drawSilhouetteSelected",
     "drawEdgesColorOpaque", "drawEdgesColorTransparent", "drawEdgesXRayed",
     "drawEdgesHighlighted", "drawEdgesSelected", "drawOcclusion", "drawShadow",
     "drawPickMesh", "drawPickDepths", "drawPickNormals"}

\* ------------------------------------------------------------ precise picking

\* The world rays of the pick calls: along the x axis, from either side of the
\* layer origin
Rays ==
    { [origin |-> <<10, 0, 0>>, dir |-> <<1, 0, 0>>],
      [origin |-> <<13, 0, 0>>, dir |-> <<1, 0, 0>>] }

\* A pick that keeps the nearest intersection
PickKeeps_Nearest(gotIntersect, dist, closestDist) ==
    ~gotIntersect \/ dist < closestDist

\* if (!gotIntersect || dist > closestDist)
PickKeeps(gotIntersect, dist, closestDist) ==
    ~gotIntersect \/ dist > closestDist

\* A pick that throws when the portion does not exist
PickPortionNotFound_Throws(call) == [call EXCEPT !.threw = TRUE]

\* if (!portion) { this.model.error("portion not found: " + portionId); return false; }
PickPortionNotFound(call) ==
    [call EXCEPT !.ret = Some(FALSE), !.log = Some("portion not found")]

\* The world ray moved to the layer origin, then through the model's world
\* normal matrix (the identity here) and the portion's inverse matrix
PickRtcRay(worldRay, origin, inverseMatrix) ==
    transformRay(inverseMatrix,
        transformRay(Identity,
            [origin |-> subVec3(worldRay.origin, origin), dir |-> worldRay.dir]))

\* closestIntersectPos after the transforms back to world space: portion.matrix,
\* the model's world matrix (the identity here), then the layer origin
PickWorldPos(matrix, origin, localPos) ==
    addVec3(transformPoint3(Identity, transformPoint3(matrix, localPos)), origin)

\* The loop over the triangles of the base geometry, from triangle i on
RECURSIVE PickTriangles(_, _, _, _, _, _, _)
PickTriangles(i, triangles, rtcRay, worldRay, matrix, wantNormal, acc) ==
    IF i > Len(triangles) THEN acc
    ELSE LET isect == rayTriangleIntersect(rtcRay, triangles[i])
             pos == PickWorldPos(matrix, cfg.origin, Val(isect))
             dist == lenVec3(subVec3(pos, worldRay.origin))
             next ==
                 IF isect # NULL /\ PickKeeps(acc.gotIntersect, dist, acc.closestDist)
                 THEN [gotIntersect |-> TRUE, closestDist |-> dist,
                       worldSurfacePos |-> Some(pos),
                       worldNormal |-> IF wantNormal
                                       THEN Some(triangleNormal(triangles[i]))
                                       ELSE acc.worldNormal]
                 ELSE acc
         IN  PickTriangles(i + 1, triangles, rtcRay, worldRay, matrix, wantNormal, next)

\* precisionRayPickSurface(portionId, worldRayOrigin, worldRayDir,
\* worldSurfacePos, worldNormal); wantNormal: the caller passed a worldNormal
PrecisionRayPickSurface(portionId, worldRay, wantNormal) ==
    /\ calls < MaxCalls
    /\ calls' = calls + 1
    /\ LET call == [Quiet("precisionRayPickSurface", portionId) EXCEPT
                       !.args = <<worldRay, wantNormal>>]
       IN  IF ~cfg.pickSurfacePrecisionEnabled
           THEN /\ last' = [call EXCEPT !.ret = Some(FALSE)]
                /\ UNCHANGED portions
           ELSE IF portionId + 1 \notin DOMAIN portions
           THEN /\ last' = PickPortionNotFound(call)
                /\ UNCHANGED portions
           ELSE LET portion == portions[portionId + 1]
                    matrix == Val(portion.matrix)
                    inverseMatrix == IF portion.inverseMatrix = NULL
                                     THEN inverseMat4(matrix)
                                     ELSE Val(portion.inverseMatrix)
                    normalMatrix == IF wantNormal /\ portion.normalMatrix = NULL
                                    THEN Some(transposeMat4(inverseMatrix))
                                    ELSE portion.normalMatrix
                    rtcRay == PickRtcRay(worldRay, cfg.origin, inverseMatrix)
                    found == PickTriangles(1, cfg.triangles, rtcRay, worldRay, matrix,
                                 wantNormal,
                                 [gotIntersect |-> FALSE, closestDist |-> 0,
                                  worldSurfacePos |-> NULL, worldNormal |-> NULL])
                IN  /\ portions' = [portions EXCEPT ![portionId + 1] =
                                       [matrix |-> portion.matrix,
                                        inverseMatrix |-> Some(inverseMatrix),
                                        normalMatrix |-> normalMatrix]]
                    /\ last' = [call EXCEPT
                           !.ret = Some(found.gotIntersect),
                           !.out = [worldSurfacePos |-> found.worldSurfacePos,
                                    worldNormal |->
                                       IF found.gotIntersect /\ wantNormal
                                       THEN Some(normalizeVec3(transformVec3(Identity,
                                                transformVec3(Val(normalMatrix),
                                                    Val(found.worldNormal)))))
                                       ELSE found.worldNormal]]
    /\ UNCHANGED <<cfg, gpu, svg, finalized, numPortions, counts, model, cpu, state,
                   aabb, tempUint8Vec4, entity, early>>

\* ------------------------------------------------------------- destruction

\* A destroy that destroys every buffer field without looking at it
DestroyReleases_Unchecked(st) == Buffers

\* if (state.buf) { state.buf.destroy(); ... }: the buffers destroy() is called on
DestroyReleases(st) == {b \in Buffers : st[b] # NULL}

\* destroy(): each buffer that is not null is destroyed and its reference nulled
Destroy ==
    /\ gpu.destroys < MaxDestroys
    /\ gpu' = [gpu EXCEPT
                  !.destroyed = [b \in Buffers |->
                                    @[b] + IF b \in DestroyReleases(state) THEN 1 ELSE 0],
                  !.destroys = @ + 1]
    /\ state' = [f \in DOMAIN state |-> IF f \in Buffers THEN NULL ELSE state[f]]
    /\ last' = [Quiet("destroy", -1) EXCEPT !.freed = DestroyReleases(state)]
    /\ UNCHANGED <<cfg, svg, finalized, portions, numPortions, counts, model, cpu,
                   aabb, tempUint8Vec4, entity, early, calls>>

\* ---------------------------------------------------------- specifications

\* createPortion with any description, finalize
Lifecycle ==
    \/ \E i \in DOMAIN PortionCfgs : CreatePortion(PortionCfgs[i])
    \/ Finalize

\* createPortion with the descriptions in loading order
Load == CreatePortion(NthPortionCfg(numPortions))

Mutators ==
    \/ \E k \in PortionIds, set \in BOOLEAN : SetVisible(k, set)
    \/ \E k \in PortionIds, set \in BOOLEAN : SetHighlighted(k, set)
    \/ \E k \in PortionIds, set \in BOOLEAN : SetXRayed(k, set)
    \/ \E k \in PortionIds, set \in BOOLEAN : SetSelected(k, set)
    \/ \E k \in PortionIds, set \in BOOLEAN : SetEdges(k, set)
    \/ \E k \in PortionIds, set \in BOOLEAN : SetClippable(k, set)
    \/ \E k \in PortionIds, set \in BOOLEAN : SetCollidable(k, set)
    \/ \E k \in PortionIds, set \in BOOLEAN : SetPickable(k, set)
    \/ \E k \in PortionIds, set \in BOOLEAN : SetCulled(k, set)
    \/ \E k \in PortionIds, t \in BOOLEAN : SetTransparent(k, t)
    \/ \E k \in PortionIds, color \in Colors : SetColor(k, color)
    \/ \E k \in PortionIds, offset \in Offsets : SetOffset(k, offset)

Inits ==
    \E k \in PortionIds, i \in InitInputs : InitFlags(k, i.flags, i.transparent)

Draws ==
    \/ \E s \in BOOLEAN, f \in FrameCtxs, m \in ModelSwitches :
          DrawColorOpaque(s, f, m)
    \/ \E s \in BOOLEAN, f \in FrameCtxs, m \in ModelSwitches :
          DrawColorTransparent(s, f, m)
    \/ \E s \in BOOLEAN, f \in BackfaceFrameCtxs, m \in ModelSwitches :
          DrawDepth(s, f, m)
    \/ \E s \in BOOLEAN, f \in BackfaceFrameCtxs, m \in ModelSwitches :
          DrawNormals(s, f, m)
    \/ \E s \in BOOLEAN, f \in BackfaceFrameCtxs, m \in ModelSwitches :
          DrawSilhouetteXRayed(s, f, m)
    \/ \E s \in BOOLEAN, f \in BackfaceFrameCtxs, m \in ModelSwitches :
          DrawSilhouetteHighlighted(s, f, m)
    \/ \E s \in BOOLEAN, f \in BackfaceFrameCtxs, m \in ModelSwitches :
          DrawSilhouetteSelected(s, f, m)
    \/ DrawEdgesColorOpaque
    \/ DrawEdgesColorTransparent
    \/ DrawEdgesXRayed
    \/ DrawEdgesHighlighted
    \/ DrawEdgesSelected
    \/ \E s \in BOOLEAN, f \in BackfaceFrameCtxs, m \in ModelSwitches :
          DrawOcclusion(s, f, m)
    \/ \E s \in BOOLEAN, f \in BackfaceFrameCtxs, m \in ModelSwitches :
          DrawShadow(s, f, m)
    \/ \E s \in BOOLEAN, f \in BackfaceFrameCtxs, m \in ModelSwitches :
          DrawPickMesh(s, f, m)
    \/ \E s \in BOOLEAN, f \in BackfaceFrameCtxs, m \in ModelSwitches :
          DrawPickDepths(s, f, m)
    \/ \E s \in BOOLEAN, f \in BackfaceFrameCtxs, m \in ModelSwitches :
          DrawPickNormals(s, f, m)

\* Any pick call: a portion id that may or may not exist, either ray, with or
\* without a worldNormal output
Picks ==
    \E portionId \in 0..MaxPortions, worldRay \in Rays, wantNormal \in BOOLEAN :
        PrecisionRayPickSurface(portionId, worldRay, wantNormal)

\* Every operation of the layer, in any order
Next == Lifecycle \/ Inits \/ Mutators \/ Draws \/ Picks \/ Destroy

Spec == Init /\ [][Next]_vars

\* The life cycle alone: portions of any description, finalize
NextLifecycle == Lifecycle \/ Destroy

SpecLifecycle == Init /\ [][NextLifecycle]_vars

\* A model loaded in order, finalized, and its portions mutated
NextMutators == Load \/ Finalize \/ Inits \/ Mutators

SpecMutators == Init /\ [][NextMutators]_vars

\* A model loaded in order and finalized, whose first portion is given any
\* flags word and transparency by initFlags
InitFirst ==
    \E flags \in SUBSET ENTITY_FLAGS, t \in BOOLEAN :
        numPortions > 0 /\ InitFlags(0, flags, t)

NextFlags == Load \/ Finalize \/ InitFirst

SpecFlags == Init /\ [][NextFlags]_vars

\* A model loaded in order, finalized, and drawn
NextDraws == Load \/ Finalize \/ Inits \/ Draws

SpecDraws == Init /\ [][NextDraws]_vars

\* The flags words and transparencies initFlags is given before the passes
\* are drawn: a transparent portion, an xrayed one, and one with edges that
\* is highlighted and selected, all visible and none culled
PassInputs ==
    { [flags |-> {"VISIBLE"}, transparent |-> TRUE],
      [flags |-> {"VISIBLE", "XRAYED"}, transparent |-> FALSE],
      [flags |-> {"VISIBLE", "EDGES", "HIGHLIGHTED", "SELECTED"},
       transparent |-> FALSE] }

\* initFlags on the portions in the order of their ids
InitPass ==
    \E k \in PortionIds, i \in PassInputs :
        /\ \A j \in 0..(k - 1) : entity[j + 1].inited
        /\ InitFlags(k, i.flags, i.transparent)

\* A model loaded in order, finalized, its portions visible and of uniform
\* or mixed kinds, and drawn
NextPasses == Load \/ Finalize \/ InitPass \/ Draws

SpecPasses == Init /\ [][NextPasses]_vars

\* The flags words the guards are compared with the stored bytes for: every
\* word over the flags that the fill, silhouette and edge bytes and the guards
\* depend on
SkipFlags == SUBSET (ENTITY_FLAGS \ {"CLIPPABLE", "COLLIDABLE", "PICKABLE"})

\* initFlags on the portions of a finalized layer in the order of their ids:
\* any flags word and transparency for the first, one of two for the others,
\* of which one is pickable
InitSkip ==
    \/ \E flags \in SkipFlags, t \in BOOLEAN :
          finalized /\ numPortions > 0 /\ InitFlags(0, flags, t)
    \/ \E k \in PortionIds \ {0}, i \in InitInputs :
          /\ finalized
          /\ \A j \in 0..(k - 1) : entity[j + 1].inited
          /\ InitFlags(k, i.flags, i.transparent)

\* Portion k has been given its flags, and the call would change the flag
Changes(k, flag, set) ==
    entity[k + 1].inited /\ set # (flag \in entity[k + 1].flags)

\* The calls of the flag mutators an owner makes when a flag of a portion
\* changes, and of setTransparent when its transparency does
ChangingMutators ==
    \/ \E k \in PortionIds, set \in BOOLEAN :
          Changes(k, "VISIBLE", set) /\ SetVisible(k, set)
    \/ \E k \in PortionIds, set \in BOOLEAN :
          Changes(k, "HIGHLIGHTED", set) /\ SetHighlighted(k, set)
    \/ \E k \in PortionIds, set \in BOOLEAN :
          Changes(k, "XRAYED", set) /\ SetXRayed(k, set)
    \/ \E k \in PortionIds, set \in BOOLEAN :
          Changes(k, "SELECTED", set) /\ SetSelected(k, set)
    \/ \E k \in PortionIds, set \in BOOLEAN :
          Changes(k, "EDGES", set) /\ SetEdges(k, set)
    \/ \E k \in PortionIds, set \in BOOLEAN :
          Changes(k, "PICKABLE", set) /\ SetPickable(k, set)
    \/ \E k \in PortionIds, set \in BOOLEAN :
          Changes(k, "CULLED", set) /\ SetCulled(k, set)
    \/ \E k \in PortionIds, t \in BOOLEAN :
          /\ entity[k + 1].inited /\ t # entity[k + 1].transparent
          /\ SetTransparent(k, t)

\* A model loaded in order and finalized, its portions given their flags once
\* and every later call changing the flag it is about
NextSkips == Load \/ Finalize \/ InitSkip \/ ChangingMutators

SpecSkips ==
    InitWith({CHOOSE c \in LayerCfgs : TRUE}) /\ [][NextSkips]_vars

\* A model loaded in order, finalized and destroyed at any moment, with calls
\* of the mutators before and after
NextRelease == Load \/ Finalize \/ Destroy \/ Mutators

SpecRelease == Init /\ [][NextRelease]_vars

\* A layer over any geometry and texture set, loaded in order and finalized
InitCapabilities == InitWith(CapabilityCfgs)

NextCapabilities == Load \/ Finalize

SpecCapabilities == InitCapabilities /\ [][NextCapabilities]_vars

\* The two color passes, on any frame and model switches, the scene not
\* sectioned
ColorDraws ==
    \/ \E f \in FrameCtxs, m \in ModelSwitches : DrawColorOpaque(FALSE, f, m)
    \/ \E f \in FrameCtxs, m \in ModelSwitches : DrawColorTransparent(FALSE, f, m)

\* initFlags on the portions in the order of their ids, each visible, opaque
\* or transparent
InitVisible ==
    \E k \in PortionIds, t \in BOOLEAN :
        /\ \A j \in 0..(k - 1) : entity[j + 1].inited
        /\ InitFlags(k, {"VISIBLE"}, t)

\* A layer of any combination of normals, UVs and textures, loaded in order,
\* finalized, its portions visible, and its color passes drawn
NextVariants == Load \/ Finalize \/ InitVisible \/ ColorDraws

SpecVariants == InitCapabilities /\ [][NextVariants]_vars

\* A layer over any base geometry, loaded in order and picked
InitPicks == InitWith(PickCfgs)

NextPicks == Load \/ Picks

SpecPicks == InitPicks /\ [][NextPicks]_vars

\* ------------------------------------------------------------------ claims

\* C1: the i-th createPortion call on a layer that is not finalized returns i
\* (i = 0, 1, 2, ...): the id returned is the number of portions created before
\* the call, so N consecutive calls return 0..N-1 in call order.
C1_PortionIdsInCallOrder ==
    (last.op = "createPortion" /\ ~last.threw) => last.ret = Some(Len(entity) - 1)

\* C1 witness: a second createPortion call has returned 1
C1_Witness ==
    last.op = "createPortion" /\ ~last.threw /\ last.ret = Some(1) /\ Len(entity) = 2

\* C2: createPortion on a finalized layer throws and leaves the portion count,
\* model.numPortions, numInstances, the per-instance arrays, the buffers and
\* the layer AABB as they were.
C2_CreateAfterFinalizeRefused ==
    [][ (finalized /\ \E i \in DOMAIN PortionCfgs : CreatePortion(PortionCfgs[i]))
        => /\ last'.threw
           /\ UNCHANGED <<portions, numPortions, model, cpu, state, aabb>> ]_vars

\* C2 witness: createPortion was refused on a finalized layer that has portions
C2_Witness ==
    finalized /\ last.op = "createPortion" /\ last.threw /\ numPortions > 0

\* C3: finalize is a one-way, one-time transition: the first call sets the
\* layer finalized, a later call throws and creates or replaces no buffer, and
\* no operation makes a finalized layer not finalized again.
C3_FinalizeOnce ==
    [][ /\ finalized => finalized'
        /\ last'.op = "finalize" =>
              IF finalized
              THEN last'.threw /\ UNCHANGED <<state, cpu, finalized>>
              ELSE finalized' /\ ~last'.threw ]_vars

\* C3 witness: a second finalize was refused on a layer that holds buffers
C3_Witness ==
    finalized /\ last.op = "finalize" /\ last.threw /\ state.colorsBuf # NULL

\* C4: every per-portion mutator called before finalize throws and leaves the
\* state as it was; no counter of the layer or of the model changes.
C4_MutatorBeforeFinalizeChangesNothing ==
    [][ (~finalized /\ Mutators)
        => /\ last'.threw
           /\ UNCHANGED <<counts, model, state, cpu, portions, numPortions>> ]_vars

\* The number of portions whose most recent call passed the flag set
Tally(flag) ==
    Cardinality({k \in 1..Len(entity) :
        IF flag = "TRANSPARENT" THEN entity[k].transparent
        ELSE flag \in entity[k].flags})

\* How far a counter is from its tally
Drift(flag) == counts[CounterOf[flag]] - Tally(flag)

\* C5: on a finalized layer, after any sequence of flag mutator calls, every
\* counter equals the number of portions whose most recent call passed its
\* flag set, sequences that pass a portion the same value twice in a row
\* included. Stated for layers whose portions have all had their initFlags.
C5_CountersMatchLastPassedFlags ==
    (finalized /\ ~early /\ \A k \in 1..Len(entity) : entity[k].inited)
        => \A flag \in CountedFlags : Drift(flag) = 0

\* The items of a buffer outside [offset, offset + n) are what they were, and
\* the buffer is neither created, dropped nor resized
OnlyItems(buf, offset, n) ==
    IF state[buf] = NULL THEN state'[buf] = NULL
    ELSE /\ state'[buf] # NULL
         /\ Len(Val(state'[buf])) = Len(Val(state[buf]))
         /\ \A i \in 1..Len(Val(state[buf])) :
               (i - 1 < offset \/ i - 1 >= offset + n)
                  => Val(state'[buf])[i] = Val(state[buf])[i]

\* Every field of _state but the named buffers is what it was
OtherBuffersKept(bufs) ==
    \A f \in DOMAIN state : f \notin bufs => state'[f] = state[f]

\* The calls that write a portion's flag words
FlagOps ==
    { "initFlags", "setVisible", "setHighlighted", "setXRayed", "setSelected",
      "setEdges", "setClippable", "setPickable", "setCulled", "setTransparent" }

\* C6: on a finalized layer setColor(k) changes only items 4k..4k+3 of the
\* color buffer and no other buffer or counter; a flag mutator on k changes
\* only items 4k..4k+3 of the flags buffers; setOffset(k) changes only items
\* 3k..3k+2 of the offsets buffer and no other buffer or counter.
C6_PartialUpdateIsolation ==
    [][ (finalized /\ ~last'.threw) =>
        LET k == last'.k
        IN  /\ last'.op = "setColor"
                  => /\ OnlyItems("colorsBuf", 4 * k, 4)
                     /\ OtherBuffersKept({"colorsBuf"})
                     /\ UNCHANGED <<counts, model>>
            /\ last'.op = "setOffset"
                  => /\ OnlyItems("offsetsBuf", 3 * k, 3)
                     /\ OtherBuffersKept({"offsetsBuf"})
                     /\ UNCHANGED <<counts, model>>
            /\ last'.op \in FlagOps
                  => /\ OnlyItems("flagsBuf", 4 * k, 4)
                     /\ OnlyItems("flags2Buf", 4 * k, 4)
                     /\ OtherBuffersKept({"flagsBuf", "flags2Buf"}) ]_vars

\* C6 witness: setColor recolored the second of two portions and the first
\* still has the color it was created with
C6_Witness ==
    /\ finalized /\ last.op = "setColor" /\ ~last.threw /\ last.k = 1
    /\ numPortions = 2 /\ state.colorsBuf # NULL
    /\ SubSeq(Val(state.colorsBuf), 5, 8) \in Colors
    /\ SubSeq(Val(state.colorsBuf), 1, 4) \notin Colors

\* The flag bytes of the first portion, once initFlags has written them
FirstFlagBytes == SubSeq(Val(state.flagsBuf), 1, 4)
FirstFlagsWritten ==
    finalized /\ Len(entity) > 0 /\ entity[1].inited /\ ~early
    /\ state.flagsBuf # NULL

\* C7: the emphasis-fill byte written by _setFlags is NOT_RENDERED for an
\* invisible or culled portion, else SILHOUETTE_SELECTED if selected, else
\* SILHOUETTE_HIGHLIGHTED if highlighted, else SILHOUETTE_XRAYED if xrayed,
\* else NOT_RENDERED: selected beats highlighted beats xrayed.
C7_EmphasisPriority ==
    FirstFlagsWritten =>
        LET flags == entity[1].flags
            f1 == FirstFlagBytes[2]
        IN  /\ ("VISIBLE" \notin flags \/ "CULLED" \in flags)
                  => f1 = RENDER_PASSES.NOT_RENDERED
            /\ ("VISIBLE" \in flags /\ "CULLED" \notin flags) =>
                  /\ "SELECTED" \in flags => f1 = RENDER_PASSES.SILHOUETTE_SELECTED
                  /\ ("SELECTED" \notin flags /\ "HIGHLIGHTED" \in flags)
                        => f1 = RENDER_PASSES.SILHOUETTE_HIGHLIGHTED
                  /\ ({"SELECTED", "HIGHLIGHTED"} \cap flags = {} /\ "XRAYED" \in flags)
                        => f1 = RENDER_PASSES.SILHOUETTE_XRAYED
                  /\ {"SELECTED", "HIGHLIGHTED", "XRAYED"} \cap flags = {}
                        => f1 = RENDER_PASSES.NOT_RENDERED

\* C7 witness: a visible portion that is selected, highlighted and xrayed at
\* once has the selected silhouette byte
C7_Witness ==
    /\ FirstFlagsWritten
    /\ {"VISIBLE", "SELECTED", "HIGHLIGHTED", "XRAYED"} \subseteq entity[1].flags
    /\ "CULLED" \notin entity[1].flags
    /\ FirstFlagBytes[2] = RENDER_PASSES.SILHOUETTE_SELECTED

\* C8: for every combination of visible, xrayed, highlighted, selected, edges,
\* pickable, culled and transparent, byte 0 is NOT_RENDERED if invisible,
\* culled or xrayed, else COLOR_TRANSPARENT or COLOR_OPAQUE by transparency;
\* byte 2 is NOT_RENDERED if invisible or culled, else the selected,
\* highlighted or xrayed edge pass in that priority, else the transparent or
\* opaque edge color pass if edges is set, else NOT_RENDERED; byte 3 is PICK
\* iff visible, not culled and pickable. Nothing else decides the bytes.
C8_FillEdgesPickBytes ==
    FirstFlagsWritten =>
        LET flags == entity[1].flags
            transparent == entity[1].transparent
            shown == "VISIBLE" \in flags /\ "CULLED" \notin flags
            f0 == FirstFlagBytes[1]
            f2 == FirstFlagBytes[3]
            f3 == FirstFlagBytes[4]
        IN  /\ f0 = (CASE ~shown \/ "XRAYED" \in flags -> RENDER_PASSES.NOT_RENDERED
                       [] OTHER -> IF transparent THEN RENDER_PASSES.COLOR_TRANSPARENT
                                   ELSE RENDER_PASSES.COLOR_OPAQUE)
            /\ f2 = (CASE ~shown -> RENDER_PASSES.NOT_RENDERED
                       [] shown /\ "SELECTED" \in flags -> RENDER_PASSES.EDGES_SELECTED
                       [] shown /\ "SELECTED" \notin flags /\ "HIGHLIGHTED" \in flags
                            -> RENDER_PASSES.EDGES_HIGHLIGHTED
                       [] shown /\ {"SELECTED", "HIGHLIGHTED"} \cap flags = {}
                             /\ "XRAYED" \in flags
                            -> RENDER_PASSES.EDGES_XRAYED
                       [] shown /\ {"SELECTED", "HIGHLIGHTED", "XRAYED"} \cap flags = {}
                             /\ "EDGES" \in flags
                            -> IF transparent THEN RENDER_PASSES.EDGES_COLOR_TRANSPARENT
                               ELSE RENDER_PASSES.EDGES_COLOR_OPAQUE
                       [] OTHER -> RENDER_PASSES.NOT_RENDERED)
            /\ f3 = (IF shown /\ "PICKABLE" \in flags
                     THEN RENDER_PASSES.PICK_ ELSE RENDER_PASSES.NOT_RENDERED)

\* C8 witness: a visible, selected, pickable, opaque portion is in the opaque
\* fill pass, the selected edge pass and the pick pass at once
C8_Witness ==
    /\ FirstFlagsWritten
    /\ {"VISIBLE", "SELECTED", "PICKABLE"} \subseteq entity[1].flags
    /\ {"CULLED", "XRAYED"} \cap entity[1].flags = {}
    /\ ~entity[1].transparent
    /\ FirstFlagBytes = << RENDER_PASSES.COLOR_OPAQUE, RENDER_PASSES.SILHOUETTE_SELECTED,
                           RENDER_PASSES.EDGES_SELECTED, RENDER_PASSES.PICK_ >>

\* C9: a draw method issues no draw call and makes no gl call when the culled
\* count equals the portion count or the visible count is zero; a layer with
\* no portions never issues a draw call.
C9_NothingDrawnWhenAllCulledOrNoneVisible ==
    last.op \in DrawOps =>
        /\ (\/ counts.numCulledLayerPortions = numPortions
            \/ counts.numVisibleLayerPortions = 0)
              => (last.draws = <<>> /\ last.gl = <<>>)
        /\ numPortions = 0 => last.draws = <<>>

\* C9 witness: a draw method was skipped on a layer whose portions are visible
\* and all culled
C9_Witness ==
    /\ last.op \in DrawOps /\ numPortions > 0
    /\ counts.numVisibleLayerPortions > 0
    /\ counts.numCulledLayerPortions = numPortions
    /\ last.draws = <<>> /\ last.gl = <<>>

\* C10: createPortion never shrinks the layer AABB: after every call each
\* minimum is at most, and each maximum at least, what it was before.
C10_AABBGrows ==
    [][ \A i \in 1..3 : aabb'[i] <= aabb[i] /\ aabb'[i + 3] >= aabb[i + 3] ]_vars

\* C10 witness: a second portion was added to a layer whose boundary already
\* held the first
C10_Witness ==
    /\ last.op = "createPortion" /\ ~last.threw /\ numPortions = 2
    /\ \A i \in 1..3 : aabb[i] <= aabb[i + 3]

\* C11: destroy releases every buffer the layer created exactly once and nulls
\* its reference; after any number of further destroy calls no buffer has been
\* released more than once, and no destroy call throws.
C11_DestroyReleasesOnce ==
    /\ \A b \in Buffers : gpu.destroyed[b] <= gpu.created[b]
    /\ last.op = "destroy" =>
          /\ ~last.threw
          /\ \A b \in Buffers : state[b] = NULL /\ gpu.destroyed[b] = gpu.created[b]

\* C11 witness: a second destroy call on a finalized layer whose buffers the
\* first call released
C11_Witness ==
    /\ finalized /\ last.op = "destroy" /\ gpu.destroys = 2
    /\ last.freed = {}
    /\ gpu.destroyed["colorsBuf"] = 1 /\ gpu.destroyed["pickColorsBuf"] = 1

\* C12: after finalize, pbrSupported is true exactly when the layer has a
\* metallic/roughness buffer, the geometry has UVs and normals and the texture
\* set exists with a color and a metallic-roughness texture;
\* colorTextureSupported exactly when the geometry has UVs and normals and the
\* texture set exists with a color texture. A layer finalized with no portions
\* is never PBR-supported.
C12_CapabilityFlags ==
    finalized =>
        LET textured(field) == cfg.textureSet # NULL /\ Val(cfg.textureSet)[field]
        IN  /\ state.pbrSupported <=>
                  /\ state.metallicRoughnessBuf # NULL
                  /\ cfg.uvBuf /\ cfg.normalsBuf
                  /\ textured("colorTexture")
                  /\ textured("metallicRoughnessTexture")
            /\ state.colorTextureSupported <=>
                  (cfg.uvBuf /\ cfg.normalsBuf /\ textured("colorTexture"))
            /\ numPortions = 0 => ~state.pbrSupported

\* C12 witness: a finalized layer with portions that supports color textures
\* but, for want of a metallic-roughness texture, not PBR
C12_Witness ==
    /\ finalized /\ numPortions > 0
    /\ state.colorTextureSupported /\ ~state.pbrSupported
    /\ state.metallicRoughnessBuf # NULL

\* C13: after finalize has uploaded the per-instance data, every CPU-side
\* staging array of the layer (colors, metallic/roughness, offsets, the model
\* and normal matrix columns, pick colors) is empty.
C13_StagingArraysReleased ==
    finalized => \A f \in DOMAIN cpu : cpu[f] = <<>>

\* The pick call just made found the switch on and its portion present
Picked ==
    /\ last.op = "precisionRayPickSurface"
    /\ cfg.pickSurfacePrecisionEnabled
    /\ last.k + 1 \in DOMAIN portions

\* C14: precisionRayPickSurface with a portion id that has no portion record
\* logs an error on the model and returns false; it does not throw and writes
\* neither worldSurfacePos nor worldNormal. With precise surface picking
\* switched off it returns false and does nothing else.
C14_PickWithoutPortion ==
    [][ (last'.op = "precisionRayPickSurface" /\ ~Picked') =>
            /\ ~last'.threw
            /\ last'.ret = Some(FALSE)
            /\ last'.out = [worldSurfacePos |-> NULL, worldNormal |-> NULL]
            /\ last'.log # NULL <=> cfg.pickSurfacePrecisionEnabled
            /\ UNCHANGED <<portions, state, counts, model, cpu, aabb>> ]_vars

\* C14 witness: a pick of portion 1 on a layer that has only portion 0
C14_Witness ==
    /\ last.op = "precisionRayPickSurface" /\ cfg.pickSurfacePrecisionEnabled
    /\ numPortions = 1 /\ last.k = 1
    /\ last.log # NULL /\ last.ret = Some(FALSE)

\* Where the ray of the pick call just made meets triangle i, in world space
PickedHit(i) ==
    LET portion == portions[last.k + 1]
        isect == rayTriangleIntersect(
                     PickRtcRay(last.args[1], cfg.origin, Val(portion.inverseMatrix)),
                     cfg.triangles[i])
    IN  IF isect = NULL THEN NULL
        ELSE Some(addVec3(transformPoint3(Val(portion.matrix), Val(isect)), cfg.origin))

\* The triangles the ray of the pick call just made hits, each one's distance
\* from the world ray origin, and the hits no other hit is farther than
PickedHits == {i \in 1..Len(cfg.triangles) : PickedHit(i) # NULL}
PickedDist(i) == lenVec3(subVec3(Val(PickedHit(i)), last.args[1].origin))
PickedFarthest == {i \in PickedHits : \A j \in PickedHits : PickedDist(j) <= PickedDist(i)}

Chars == {"1", ".", "-", "+", ",", " ", "e"}

\* RE.WHITESPACE, RE.DIGIT, RE.SIGN, RE.POINT, RE.COMMA, RE.EXP, RE.FLAGS
WHITESPACE == {" "}
DIGIT == {"1"}
SIGN == {"-", "+"}
POINT == {"."}
COMMA == {","}
EXP == {"e"}
FLAGS == {"0", "1"}

\* The strings of at most n characters
RECURSIVE Strings(_)
Strings(n) ==
    IF n = 0 THEN {<<>>}
    ELSE LET shorter == Strings(n - 1)
         IN  shorter \cup {Append(s, c) : s \in {t \in shorter : Len(t) = n - 1},
                                          c \in Chars}

\* The flags and stride arguments: none, or every second number is a flag
FlagArgs == {NULL, Some([flags |-> {1}, stride |-> 2])}

\* A number that is not a number
NaN == [nan |-> TRUE]

\* The digits of a string read as a decimal integer, the other characters
\* skipped
RECURSIVE DigitsValue(_)
DigitsValue(str) ==
    IF str = <<>> THEN 0
    ELSE LET c == str[Len(str)]
             front == SubSeq(str, 1, Len(str) - 1)
         IN  IF c \in DIGIT THEN 10 * DigitsValue(front) + 1
             ELSE DigitsValue(front)

\* How many digits a string has
DigitCount(str) == Cardinality({i \in 1..Len(str) : str[i] \in DIGIT})

\* How many digits follow the decimal point of a string
FractionDigits(str) ==
    IF \E i \in 1..Len(str) : str[i] \in POINT
    THEN LET p == CHOOSE i \in 1..Len(str) : str[i] \in POINT
         IN  Cardinality({i \in p + 1..Len(str) : str[i] \in DIGIT})
    ELSE 0

\* Number(str) of an optional sign, digits, and at most one decimal point: the
\* value m * 10^e, or NaN when the string has no digit
Number(str) ==
    IF DigitCount(str) = 0 THEN NaN
    ELSE [nan |-> FALSE,
          m |-> IF str[1] = "-" THEN 0 - DigitsValue(str) ELSE DigitsValue(str),
          e |-> 0 - FractionDigits(str)]

\* Number(number) * Math.pow(10, Number(exponent))
Scaled(number, exponent) ==
    LET n == Number(number)
        x == Number(exponent)
    IN  IF n.nan \/ x.nan THEN NaN
        ELSE [nan |-> FALSE, m |-> n.m, e |-> n.e + x.m]

\* The states of the parser
SEP == 0
INT == 1
FLOAT == 2
EXPONENT == 3

\* The parser before the first character
ParserStart ==
    [state |-> SEP, seenComma |-> TRUE, number |-> <<>>, exponent |-> <<>>,
     result |-> <<>>, error |-> NULL]

\* The error of throwSyntaxError, the index one too far
throwSyntaxError_NextIndex(current, i, partial) ==
    [current |-> current, index |-> i + 1, partial |-> partial]

\* throwSyntaxError: the character, its index and the numbers parsed so far
throwSyntaxError(current, i, partial) ==
    [current |-> current, index |-> i, partial |-> partial]

\* The parser stopped by a syntax error
Thrown(ps, current, i) ==
    [ps EXCEPT !.error = Some(throwSyntaxError(current, i, ps.result))]

\* newNumber: the number in progress, if any, joins the result
newNumber(ps) ==
    [ps EXCEPT !.result =
                   IF ps.number # <<>>
                   THEN IF ps.exponent = <<>>
                        THEN Append(ps.result, Number(ps.number))
                        ELSE Append(ps.result, Scaled(ps.number, ps.exponent))
                   ELSE ps.result,
               !.number = <<>>,
               !.exponent = <<>>]

\* Whether the next character is read as a flag
IsFlag(ps, current, flagArgs) ==
    /\ flagArgs # NULL
    /\ (Len(ps.result) % Val(flagArgs).stride) \in Val(flagArgs).flags
    /\ current \in FLAGS

\* The test on a second comma, always passed
DoubleComma_Never(seenComma) == FALSE

\* The test on a second comma: a comma was already seen since the last number
DoubleComma(seenComma) == seenComma

\* The test on a double sign: a sign after a number that is a lone sign
DoubleSign(current, number) ==
    current \in SIGN /\ Len(number) = 1 /\ number[1] \in SIGN

\* The test on a double decimal point: a point after a number ending in one
DoublePoint(current, number) ==
    current \in POINT /\ number # <<>> /\ number[Len(number)] = "."

\* The test on a double sign in the exponent
DoubleExponentSign(exponent) ==
    Len(exponent) = 1 /\ exponent[1] \in SIGN

\* The end of a number: what the character after it starts
EndOfNumber(ps, current, i) ==
    IF current \in WHITESPACE
    THEN [newNumber(ps) EXCEPT !.state = SEP, !.seenComma = FALSE]
    ELSE IF current \in COMMA
    THEN [newNumber(ps) EXCEPT !.state = SEP, !.seenComma = TRUE]
    ELSE IF current \in SIGN
    THEN [newNumber(ps) EXCEPT !.state = INT, !.number = <<current>>]
    ELSE IF current \in POINT
    THEN [newNumber(ps) EXCEPT !.state = FLOAT, !.number = <<current>>]
    ELSE Thrown(ps, current, i)

\* One turn of the loop of parseFloats on the character at index i
ParseChar(ps, current, i, flagArgs) ==
    IF IsFlag(ps, current, flagArgs)
    THEN newNumber([ps EXCEPT !.state = INT, !.number = <<current>>])
    ELSE IF ps.state = SEP
    THEN IF current \in WHITESPACE THEN ps
         ELSE IF current \in DIGIT \cup SIGN
         THEN [ps EXCEPT !.state = INT, !.number = <<current>>]
         ELSE IF current \in POINT
         THEN [ps EXCEPT !.state = FLOAT, !.number = <<current>>]
         ELSE IF current \in COMMA
         THEN IF DoubleComma(ps.seenComma) THEN Thrown(ps, current, i)
              ELSE EndOfNumber([ps EXCEPT !.seenComma = TRUE], current, i)
         ELSE EndOfNumber(ps, current, i)
    ELSE IF ps.state = INT
    THEN IF current \in DIGIT
         THEN [ps EXCEPT !.number = Append(ps.number, current)]
         ELSE IF current \in POINT
         THEN [ps EXCEPT !.number = Append(ps.number, current), !.state = FLOAT]
         ELSE IF current \in EXP THEN [ps EXCEPT !.state = EXPONENT]
         ELSE IF DoubleSign(current, ps.number) THEN Thrown(ps, current, i)
         ELSE EndOfNumber(ps, current, i)
    ELSE IF ps.state = FLOAT
    THEN IF current \in DIGIT
         THEN [ps EXCEPT !.number = Append(ps.number, current)]
         ELSE IF current \in EXP THEN [ps EXCEPT !.state = EXPONENT]
         ELSE IF DoublePoint(current, ps.number) THEN Thrown(ps, current, i)
         ELSE EndOfNumber(ps, current, i)
    ELSE IF current \in DIGIT
         THEN [ps EXCEPT !.exponent = Append(ps.exponent, current)]
         ELSE IF current \in SIGN /\ ps.exponent = <<>>
         THEN [ps EXCEPT !.exponent = Append(ps.exponent, current)]
         ELSE IF current \in SIGN /\ DoubleExponentSign(ps.exponent)
         THEN Thrown(ps, current, i)
         ELSE EndOfNumber(ps, current, i)

\* The loop of parseFloats from index i (zero-based) on
RECURSIVE ParseFrom(_, _, _, _)
ParseFrom(ps, input, i, flagArgs) ==
    IF ps.error # NULL \/ i >= Len(input) THEN ps
    ELSE ParseFrom(ParseChar(ps, input[i + 1], i, flagArgs), input, i + 1,
                   flagArgs)

\* parseFloats: the list of numbers, or the syntax error thrown
parseFloats(input, flagArgs) ==
    LET ps == ParseFrom(ParserStart, input, 0, flagArgs)
    IN  IF ps.error # NULL
        THEN [threw |-> TRUE, result |-> <<>>, error |-> Val(ps.error)]
        ELSE [threw |-> FALSE, result |-> newNumber(ps).result,
              error |-> [current |-> "", index |-> 0 - 1, partial |-> <<>>]]

\* The calls of parseFloats about to be made, on inputs of at most n characters
FloatCalls(n) ==
    {[op |-> "parseFloats", in |-> [input |-> s, flagArgs |-> f], out |-> NULL] :
        s \in Strings(n), f \in FlagArgs}

\* A call of parseFloats returns or throws
ParseFloats ==
    /\ svg.op = "parseFloats" /\ svg.out = NULL
    /\ svg' = [svg EXCEPT !.out = Some(parseFloats(svg.in.input, svg.in.flagArgs))]
    /\ UNCHANGED layerVars

\* A layer at rest and a call of parseFloats about to be made
InitFloats ==
    /\ InitLayer({CHOOSE c \in LayerCfgs : TRUE})
    /\ svg \in FloatCalls(MaxLen)

NextFloats == ParseFloats

\* The calls of parseFloats
SpecFloats == InitFloats /\ [][NextFloats]_vars

\* ------------------------------------------------- loader plugin: load

\* The parameters of load that decide what it does to the busy counter,
\* scene.canvas.spinner.processes: whether each of them is given
LoadParams ==
    [src : BOOLEAN, gltf : BOOLEAN, metaModelSrc : BOOLEAN,
     metaModelData : BOOLEAN]

\* processMetaModelData, as far as the busy counter goes: after
\* createMetaModel, spinner.processes--
processMetaModelData(processes) == processes - 1

\* load(params) up to its return: the busy counter after it and what has
\* become of the call. Without src and gltf it reports an error and returns;
\* with metaModelSrc it counts up and asks the data source for the meta model;
\* with metaModelData it processes the data at once
load(params, processes) ==
    IF ~params.src /\ ~params.gltf
    THEN [processes |-> processes, pc |-> "rejected"]
    ELSE IF params.metaModelSrc
    THEN [processes |-> processes + 1, pc |-> "fetching"]
    ELSE IF params.metaModelData
    THEN [processes |-> processMetaModelData(processes), pc |-> "processed"]
    ELSE [processes |-> processes, pc |-> "loading"]

\* A call of load
PluginLoad ==
    /\ svg.op = "load" /\ Len(svg.loads) < MaxLoads
    /\ \E params \in LoadParams :
          LET r == load(params, svg.processes)
          IN  svg' = [svg EXCEPT
                         !.processes = r.processes,
                         !.loads = Append(@, [params |-> params, pc |-> r.pc])]
    /\ UNCHANGED layerVars

\* The data source hands the meta model of call i to its first callback:
\* spinner.processes--, then processMetaModelData
MetaModelLoaded ==
    /\ svg.op = "load"
    /\ \E i \in DOMAIN svg.loads :
          /\ svg.loads[i].pc = "fetching"
          /\ svg' = [svg EXCEPT
                        !.processes = processMetaModelData(@ - 1),
                        !.loads[i].pc = "processed"]
    /\ UNCHANGED layerVars

\* The data source reports to its second callback that the meta model of call
\* i could not be got: the error is logged, spinner.processes--
MetaModelFailed ==
    /\ svg.op = "load"
    /\ \E i \in DOMAIN svg.loads :
          /\ svg.loads[i].pc = "fetching"
          /\ svg' = [svg EXCEPT !.processes = @ - 1, !.loads[i].pc = "failed"]
    /\ UNCHANGED layerVars

\* A layer at rest and a plugin that has loaded nothing yet, the busy counter
\* at any value other work has left it at
InitLoad ==
    /\ InitLayer({CHOOSE c \in LayerCfgs : TRUE})
    /\ \E p \in 0..MaxProcesses :
          svg = [op |-> "load", in |-> [processes |-> p], out |-> NULL,
                 processes |-> p, loads |-> <<>>]

NextLoad == PluginLoad \/ MetaModelLoaded \/ MetaModelFailed

\* The calls of load and the answers of the data source, in any order
SpecLoad == InitLoad /\ [][NextLoad]_vars

\* ------------------------------------------------- SVG loader: parse

\* Node.ELEMENT_NODE and Node.TEXT_NODE
ELEMENT_NODE == 1
TEXT_NODE == 3

\* The value of a missing argument or property
undefined == [js |-> "undefined", ix |-> 0]

\* The node of the document at index ix, as a value
DomNode(ix) == [js |-> "node", ix |-> ix]

\* The object of style defaults parse passes at the root
StyleDefaults == [js |-> "object", ix |-> 0]

\* The style parseStyle returns
ParsedStyle == [js |-> "style", ix |-> 0]

\* The elements whose parser makes a path out of the node alone
ShapeNames == {"rect"}

\* The nodes a document may hold besides its root: an element or a text node;
\* a path with or without the d attribute; a use with or without a target
NodeKinds ==
    {[nodeType |-> ELEMENT_NODE, nodeName |-> "g", d |-> FALSE],
     [nodeType |-> ELEMENT_NODE, nodeName |-> "path", d |-> TRUE],
     [nodeType |-> ELEMENT_NODE, nodeName |-> "path", d |-> FALSE],
     [nodeType |-> ELEMENT_NODE, nodeName |-> "rect", d |-> FALSE],
     [nodeType |-> ELEMENT_NODE, nodeName |-> "defs", d |-> FALSE],
     [nodeType |-> ELEMENT_NODE, nodeName |-> "use", d |-> FALSE],
     [nodeType |-> TEXT_NODE, nodeName |-> "#text", d |-> FALSE]}

\* The root element of a document
RootNode ==
    [nodeType |-> ELEMENT_NODE, nodeName |-> "svg", d |-> FALSE, parent |-> 0,
     href |-> 0]

\* A node and its ancestors
RECURSIVE AncestorsOrSelf(_, _)
AncestorsOrSelf(doc, ix) ==
    IF ix = 0 THEN {} ELSE {ix} \cup AncestorsOrSelf(doc, doc[ix].parent)

\* Whether a node makes a path when it is parsed
MakesPath(n) ==
    \/ n.nodeName \in ShapeNames
    \/ n.nodeName = "path" /\ n.d

\* A node of some kind, child of p, referring to h (0: to no node)
NodeOf(k, p, h) ==
    [nodeType |-> k.nodeType, nodeName |-> k.nodeName, d |-> k.d,
     parent |-> p, href |-> h]

\* The use element
UseKind == [nodeType |-> ELEMENT_NODE, nodeName |-> "use", d |-> FALSE]

\* The parents the next node of a document may have, the nodes staying in
\* document order: the elements among the last node and its ancestors
NextParents(doc) ==
    {p \in AncestorsOrSelf(doc, Len(doc)) : doc[p].nodeType = ELEMENT_NODE}

\* The documents a document becomes by one more node: a node of any kind
\* referring to no node, or a use referring to an earlier node that makes a
\* path
OneMoreNode(doc) ==
    {Append(doc, NodeOf(k, p, 0)) : k \in NodeKinds, p \in NextParents(doc)}
    \cup {Append(doc, NodeOf(UseKind, p, h)) :
              p \in NextParents(doc),
              h \in {t \in 1..Len(doc) : MakesPath(doc[t])}}

\* The documents of n nodes
RECURSIVE DocsOf(_)
DocsOf(n) ==
    IF n = 1 THEN {<<RootNode>>}
    ELSE UNION {OneMoreNode(doc) : doc \in DocsOf(n - 1)}

\* The documents of at most n nodes
Docs(n) == UNION {DocsOf(k) : k \in 1..n}

\* node.childNodes: the children of a node in document order
ChildNodes(doc, ix) ==
    LET kids == {c \in 1..Len(doc) : doc[c].parent = ix}
        Ordered[s \in SUBSET kids] ==
            IF s = {} THEN <<>>
            ELSE LET c == CHOOSE x \in s : \A y \in s : x <= y
                 IN  <<c>> \o Ordered[s \ {c}]
    IN  Ordered[kids]

\* node.nodeType of a value: undefined unless the value is a node
NodeTypeOf(doc, v) == IF v.js = "node" THEN doc[v.ix].nodeType ELSE 0

\* parsePathNode(ctx, node): the path of the node's d attribute
parsePathNode(ctx, node) == [source |-> node, userData |-> undefined]

\* parseRectNode(node) and the like: the path of the node's attributes
parseRectNode(node) == [source |-> node, userData |-> undefined]

\* The path a node makes, if any. The parsers of the shape elements take one
\* parameter and are called with (ctx, node): they are given ctx
NodePath(doc, ctx, node) ==
    LET n == doc[node.ix]
    IN  IF n.nodeName = "path"
        THEN IF n.d THEN Some(parsePathNode(ctx, node)) ELSE NULL
        ELSE IF n.nodeName \in ShapeNames THEN Some(parseRectNode(ctx))
        ELSE NULL

\* The style after the switch: parseStyle except at svg, style and defs
NodeStyle(doc, node, style) ==
    IF doc[node.ix].nodeName \in {"g", "path", "use"} \cup ShapeNames
    THEN ParsedStyle
    ELSE style

\* parseNode(ctx, node, style), and its loop over child nodes: the paths pushed
\* and the use nodes warned about so far, and those this node adds
RECURSIVE parseNode(_, _, _, _, _)
RECURSIVE parseChildNodes(_, _, _, _, _)
parseNode(doc, ctx, node, style, paths) ==
    IF NodeTypeOf(doc, node) # ELEMENT_NODE THEN paths
    ELSE LET n == doc[node.ix]
             style1 == NodeStyle(doc, node, style)
             path == NodePath(doc, ctx, node)
             used == IF n.nodeName = "use"
                     THEN IF n.href # 0
                          THEN parseNode(doc, ctx, DomNode(n.href), style1, paths)
                          ELSE [paths EXCEPT !.warned = Append(@, node.ix)]
                     ELSE paths
             pushed == IF path # NULL
                       THEN [used EXCEPT !.pushed =
                                Append(@, [Val(path) EXCEPT !.userData = node])]
                       ELSE used
         IN  IF n.nodeName # "defs"
             THEN parseChildNodes(doc, ctx, ChildNodes(doc, node.ix), style1,
                                  pushed)
             ELSE pushed

parseChildNodes(doc, ctx, nodes, style, paths) ==
    IF nodes = <<>> THEN paths
    ELSE parseChildNodes(doc, ctx, Tail(nodes), style,
                         parseNode(doc, ctx, DomNode(Head(nodes)), style, paths))

\* The first call of parseNode: parseNode(xml.documentElement, {...}) binds the
\* root element to ctx and the style defaults to node
ParseRoot(doc) ==
    parseNode(doc, DomNode(1), StyleDefaults, undefined,
              [pushed |-> <<>>, warned |-> <<>>])

\* parse: the paths of a document, and the use nodes it warned about
parse(doc) == [paths |-> ParseRoot(doc).pushed, warned |-> ParseRoot(doc).warned]

\* The calls of parse about to be made, on documents of at most n nodes
ParseCalls(n) ==
    {[op |-> "parse", in |-> doc, out |-> NULL] : doc \in Docs(n)}

\* A call of parse returns
Parse ==
    /\ svg.op = "parse" /\ svg.out = NULL
    /\ svg' = [svg EXCEPT !.out = Some(parse(svg.in))]
    /\ UNCHANGED layerVars

\* A layer at rest and a call of parse about to be made
InitParse ==
    /\ InitLayer({CHOOSE c \in LayerCfgs : TRUE})
    /\ svg \in ParseCalls(MaxNodes)

NextParse == Parse

\* The calls of parse
SpecParse == InitParse /\ [][NextParse]_vars

\* ------------------------------------------------- SVG loader: the node walk

\* The depth of calls at which the engine gives up with a RangeError: more
\* than a walk that enters no node twice can need
MaxDepth == MaxNodes + 1

\* math.mat3() as parse uses it: the identity. A transform is the list of the
\* nodes whose own transforms it composes, outermost first
mat3 == <<>>

\* transform.premultiply(m): m applied before the transform
premultiply(transform, m) == m \o transform

\* parseNodeTransform(node): the transform of the node's own attributes
parseNodeTransform(ix) == premultiply(mat3, <<ix>>)

\* The test of getNodeTransform: the node has a transform attribute, or is a
\* use node with an x or a y attribute
HasNodeTransform(in, ix) ==
    \/ ix \in in.transform
    \/ in.doc[ix].nodeName = "use" /\ ix \in in.xy

\* getNodeTransform(node): null, or the node's transform composed with the top
\* of the stack, made the current transform and pushed
getNodeTransform(w, ix) ==
    IF ~HasNodeTransform(w.in, ix) THEN [w |-> w, transform |-> NULL]
    ELSE LET own == parseNodeTransform(ix)
             transform == IF Len(w.transformStack) > 0
                          THEN premultiply(own,
                                   w.transformStack[Len(w.transformStack)])
                          ELSE own
         IN  [w |-> [w EXCEPT !.currentTransform = transform,
                              !.transformStack = Append(@, transform)],
              transform |-> Some(transform)]

\* The end of parseNode that pops always, whatever the node pushed
PopTransform_Always(w, transform) ==
    LET popped == SubSeq(w.transformStack, 1, Len(w.transformStack) - 1)
    IN  [w EXCEPT !.transformStack = popped,
                  !.currentTransform =
                      IF Len(popped) > 0 THEN popped[Len(popped)] ELSE mat3]

\* The end of parseNode: a node that pushed a transform pops it, and the
\* current transform becomes the top of the stack, or the identity
PopTransform(w, transform) ==
    IF transform = NULL THEN w
    ELSE LET popped == SubSeq(w.transformStack, 1, Len(w.transformStack) - 1)
         IN  [w EXCEPT !.transformStack = popped,
                       !.currentTransform =
                           IF Len(popped) > 0 THEN popped[Len(popped)]
                           ELSE mat3]

\* A call parseNode(ctx, node, style) begins: anything but an element returns
\* at once; a call too deep throws; an element gets its transform and a frame
\* that stands before the switch. The frame keeps the depth the transform
\* stack had when the call was made
EnterNode(w, node) ==
    IF NodeTypeOf(w.in.doc, node) # ELEMENT_NODE
    THEN IF w.frames = <<>> THEN [w EXCEPT !.out = Some("returned")] ELSE w
    ELSE IF Len(w.frames) = MaxDepth
    THEN [w EXCEPT !.out = Some("RangeError")]
    ELSE LET t == getNodeTransform(w, node.ix)
         IN  [t.w EXCEPT !.frames =
                 Append(@, [node |-> node.ix, transform |-> t.transform,
                            depth |-> Len(w.transformStack),
                            pc |-> "switch", i |-> 1])]

\* The frame of the call that is running
Frame(w) == w.frames[Len(w.frames)]

\* The walk with the running call moved on to pc, at child i
Goto(w, pc, i) ==
    [w EXCEPT !.frames[Len(w.frames)].pc = pc, !.frames[Len(w.frames)].i = i]

\* The walk is inside a call that stands at pc
Walking(pc) ==
    /\ svg.op = "parseNode" /\ svg.out = NULL
    /\ svg.frames # <<>> /\ Frame(svg).pc = pc

\* The first call of parseNode is made
ParseNodeCall ==
    /\ svg.op = "parseNode" /\ svg.out = NULL
    /\ svg.frames = <<>> /\ ~svg.called
    /\ svg' = EnterNode([svg EXCEPT !.called = TRUE], svg.in.node)
    /\ UNCHANGED layerVars

\* The switch of parseNode: a use node parses the node it refers to or warns;
\* a defs node leaves its children out
ParseNodeSwitch ==
    /\ Walking("switch")
    /\ LET n == svg.in.doc[Frame(svg).node]
       IN  svg' = IF n.nodeName = "use"
                  THEN IF n.href # 0
                       THEN EnterNode(Goto(svg, "children", 1), DomNode(n.href))
                       ELSE [Goto(svg, "children", 1) EXCEPT
                                !.warned = Append(@, Frame(svg).node)]
                  ELSE IF n.nodeName = "defs" THEN Goto(svg, "pop", 1)
                  ELSE Goto(svg, "children", 1)
    /\ UNCHANGED layerVars

\* The loop over node.childNodes: the next child is parsed, or the loop ends
ParseNodeChild ==
    /\ Walking("children")
    /\ LET nodes == ChildNodes(svg.in.doc, Frame(svg).node)
           i == Frame(svg).i
       IN  svg' = IF i <= Len(nodes)
                  THEN EnterNode(Goto(svg, "children", i + 1), DomNode(nodes[i]))
                  ELSE Goto(svg, "pop", i)
    /\ UNCHANGED layerVars

\* The end of parseNode, and the return to the caller
ParseNodeReturn ==
    /\ Walking("pop")
    /\ LET w == PopTransform(svg, Frame(svg).transform)
           frames == SubSeq(w.frames, 1, Len(w.frames) - 1)
       IN  svg' = [w EXCEPT !.frames = frames,
                            !.out = IF frames = <<>> THEN Some("returned")
                                    ELSE NULL]
    /\ UNCHANGED layerVars

\* A first call of parseNode about to be made on a document, the nodes of
\* transform carrying a transform attribute and every node an x when xy says so
WalkCall(doc, transform, xy, node) ==
    [op |-> "parseNode",
     in |-> [doc |-> doc, transform |-> transform, node |-> node,
             xy |-> IF xy THEN 1..Len(doc) ELSE {}],
     out |-> NULL, called |-> FALSE, frames |-> <<>>, warned |-> <<>>,
     transformStack |-> <<>>, currentTransform |-> mat3]

\* A layer at rest and a first call of parseNode about to be made on a
\* document of at most MaxNodes nodes: the call parse makes, which binds the
\* style defaults to node, or the call on the root element
InitWalk ==
    /\ InitLayer({CHOOSE c \in LayerCfgs : TRUE})
    /\ \E doc \in Docs(MaxNodes) :
          \/ svg = WalkCall(doc, {}, FALSE, StyleDefaults)
          \/ \E t \in SUBSET (1..Len(doc)), x \in BOOLEAN :
                svg = WalkCall(doc, t, x, DomNode(1))

NextWalk ==
    ParseNodeCall \/ ParseNodeSwitch \/ ParseNodeChild \/ ParseNodeReturn

\* The walk of parseNode over a document
SpecWalk == InitWalk /\ [][NextWalk]_vars

\* ------------------------------------------------- SVG loader: createShapes

\* The names the loader's module binds: its imports and its top-level
\* declarations
BoundNames ==
    {"utils", "PerformanceModel", "Node", "Plugin", "GLTFSceneGraphLoader",
     "GLTFPerformanceModelLoader", "IFCObjectDefaults", "GLTFDefaultDataSource",
     "ShapePath", "math", "SVGLoaderPlugin", "parse", "createShapes",
     "getStrokeStyle", "pointsToStroke", "pointsToStrokeWithBuffers"}

\* The first of some names, in the order they are evaluated, that the module
\* does not bind; "" when it binds them all
RECURSIVE FirstUnbound(_)
FirstUnbound(names) ==
    IF names = <<>> THEN ""
    ELSE IF Head(names) \notin BoundNames THEN Head(names)
    ELSE FirstUnbound(Tail(names))

\* createShapes has returned a list of shapes
ShapesReturned(shapes) ==
    [threw |-> FALSE, error |-> "", name |-> "", shapes |-> shapes,
     isAHole |-> <<>>, warned |-> FALSE]

\* createShapes has thrown: the kind of the error and the name or property it
\* is about
ShapesThrew(error, name) ==
    [threw |-> TRUE, error |-> error, name |-> name, shapes |-> <<>>,
     isAHole |-> <<>>, warned |-> FALSE]

\* The fill rules of a path's style: none given, the two that are implemented,
\* and one that is not
FillRules == {"", "nonzero", "evenodd", "inherit"}

\* The sets of identifiers as lists in increasing order
RECURSIVE Ascending(_)
Ascending(s) ==
    IF s = {} THEN <<>>
    ELSE LET least == CHOOSE x \in s : \A y \in s : x <= y
         IN  <<least>> \o Ascending(s \ {least})

\* The subpaths a path of n subpaths may have at position i (from 0): of one
\* point or of four, clockwise or not, and with the scanline through its
\* centre crossing, left of its own first crossing, some of the other subpaths
SubPathsAt(i, n) ==
    {[curves |-> i, points |-> pts, isCW |-> cw, crossed |-> Ascending(s)] :
        pts \in {1, 4}, cw \in BOOLEAN, s \in SUBSET ((0..n - 1) \ {i})}

\* The lists of n subpaths, the first k of them chosen
RECURSIVE SubPathLists(_, _)
SubPathLists(k, n) ==
    IF k = 0 THEN {<<>>}
    ELSE {Append(l, p) : l \in SubPathLists(k - 1, n), p \in SubPathsAt(k - 1, n)}

\* The paths of at most n subpaths, with their fill rule
ShapePaths(n) ==
    {[subPaths |-> l, fillRule |-> f] :
        l \in UNION {SubPathLists(k, k) : k \in 0..n}, f \in FillRules}

\* The simple path of a subpath: its curves, its points, its direction, its
\* identifier, and what its bounding box and points make the scanline cross
SimplePath(p, identifier) ==
    [curves |-> p.curves, points |-> p.points, isCW |-> p.isCW,
     identifier |-> identifier, crossed |-> p.crossed]

\* shapePath.subPaths.map(...): the simple paths, identifiers counted from 0
SimplePaths(subPaths) ==
    [i \in 1..Len(subPaths) |-> SimplePath(subPaths[i], i - 1)]

\* simplePaths.filter(sp => sp.points.length > 1)
WithPoints(simplePaths) == SelectSeq(simplePaths, LAMBDA sp : sp.points > 1)

\* list[index] of a JavaScript array, undefined (NULL) outside it
At(list, index) ==
    IF index + 1 \in DOMAIN list THEN Some(list[index + 1]) ELSE NULL

\* The stack of isHoleTo: an identifier crossed is popped when on top, pushed
\* otherwise; the path's own identifier is pushed last
RECURSIVE HoleStack(_, _)
HoleStack(stack, crossed) ==
    IF crossed = <<>> THEN stack
    ELSE HoleStack(IF stack # <<>> /\ stack[Len(stack)] = Head(crossed)
                   THEN SubSeq(stack, 1, Len(stack) - 1)
                   ELSE Append(stack, Head(crossed)),
                   Tail(crossed))

\* The evenodd rule: a hole when the stack has even depth, for the entry below
\* the top
EvenOdd(simplePath, stack) ==
    [threw |-> FALSE, warned |-> FALSE,
     value |-> Some([identifier |-> simplePath.identifier,
                     isHole |-> Len(stack) % 2 = 0,
                     for |-> At(stack, Len(stack) - 2)])]

\* The loop of the nonzero rule from stack entry i on: isHole, isHoleFor and
\* lastCWValue so far
RECURSIVE NonZeroFrom(_, _, _, _)
NonZeroFrom(simplePath, allPaths, stack, walk) ==
    IF walk.i > Len(stack)
    THEN [threw |-> FALSE, warned |-> FALSE,
          value |-> Some([identifier |-> simplePath.identifier,
                          isHole |-> walk.isHole, for |-> walk.isHoleFor])]
    ELSE LET identifier == stack[walk.i]
             entry == At(allPaths, identifier)
         IN  IF walk.isHole
             THEN IF entry = NULL THEN [threw |-> TRUE, warned |-> FALSE, value |-> NULL]
                  ELSE NonZeroFrom(simplePath, allPaths, stack,
                                   [i |-> walk.i + 1, isHole |-> FALSE,
                                    isHoleFor |-> Some(identifier),
                                    lastCWValue |-> Some(Val(entry).isCW)])
             ELSE IF entry = NULL THEN [threw |-> TRUE, warned |-> FALSE, value |-> NULL]
                  ELSE IF walk.lastCWValue # Some(Val(entry).isCW)
                  THEN NonZeroFrom(simplePath, allPaths, stack,
                                   [walk EXCEPT !.i = walk.i + 1, !.isHole = TRUE,
                                                !.lastCWValue = Some(Val(entry).isCW)])
                  ELSE NonZeroFrom(simplePath, allPaths, stack,
                                   [walk EXCEPT !.i = walk.i + 1])

\* isHoleTo: whether a simple path is a hole and for which path, undefined
\* (NULL) under a fill rule that is not implemented; a TypeError when an
\* identifier on the stack is no index of allPaths
isHoleTo(simplePath, allPaths, fillRule) ==
    LET rule == IF fillRule = "" THEN "nonzero" ELSE fillRule
        stack == Append(HoleStack(<<>>, simplePath.crossed), simplePath.identifier)
    IN  IF rule = "evenodd" THEN EvenOdd(simplePath, stack)
        ELSE IF rule = "nonzero"
        THEN NonZeroFrom(simplePath, allPaths, stack,
                         [i |-> 1, isHole |-> TRUE, isHoleFor |-> NULL,
                          lastCWValue |-> NULL])
        ELSE [threw |-> FALSE, warned |-> TRUE, value |-> NULL]

\* The entries of isAHole that are holes for an identifier, in the order of
\* isAHole
HolesOf(identifier, isAHole) ==
    SelectSeq(isAHole, LAMBDA h : Val(h).isHole /\ Val(h).for = Some(identifier))

\* The assembly of the shapes from simple path i on: one shape for each simple
\* path whose entry isAHole[p.identifier] is not a hole, its holes the curves
\* of simplePaths[h.identifier] for each hole h recorded for it
RECURSIVE ShapesFrom(_, _, _, _)
ShapesFrom(simplePaths, isAHole, i, shapes) ==
    IF i > Len(simplePaths) THEN ShapesReturned(shapes)
    ELSE LET p == simplePaths[i]
             amIAHole == At(isAHole, p.identifier)
         IN  IF amIAHole = NULL \/ Val(amIAHole) = NULL
             THEN ShapesThrew("TypeError", "isHole")
             ELSE IF Val(Val(amIAHole)).isHole
             THEN ShapesFrom(simplePaths, isAHole, i + 1, shapes)
             ELSE IF FirstUnbound(<<"Shape">>) # ""
             THEN ShapesThrew("ReferenceError", "Shape")
             ELSE LET holes == HolesOf(p.identifier, isAHole)
                      found == [k \in 1..Len(holes) |->
                                   At(simplePaths, Val(holes[k]).identifier)]
                  IN  IF holes # <<>> /\ FirstUnbound(<<"Path">>) # ""
                      THEN ShapesThrew("ReferenceError", "Path")
                      ELSE IF \E k \in 1..Len(holes) : found[k] = NULL
                      THEN ShapesThrew("TypeError", "curves")
                      ELSE ShapesFrom(simplePaths, isAHole, i + 1,
                                      Append(shapes,
                                             [curves |-> p.curves,
                                              holes |-> [k \in 1..Len(holes) |->
                                                            Val(found[k]).curves]]))

\* createShapes: the shapes of a path, or the error thrown, with the list
\* isAHole once isHoleTo has made it and whether isHoleTo has warned. Building
\* the first simple path evaluates ShapeUtils, Box2 and Vector2; isHoleTo
\* evaluates Vector2
createShapes(shapePath) ==
    LET subPaths == shapePath.subPaths
        simplePaths == WithPoints(SimplePaths(subPaths))
        results == [i \in 1..Len(simplePaths) |->
                       isHoleTo(simplePaths[i], simplePaths, shapePath.fillRule)]
        isAHole == [i \in 1..Len(simplePaths) |-> results[i].value]
    IN  IF subPaths # <<>> /\ FirstUnbound(<<"ShapeUtils", "Box2", "Vector2">>) # ""
        THEN ShapesThrew("ReferenceError",
                         FirstUnbound(<<"ShapeUtils", "Box2", "Vector2">>))
        ELSE IF \E i \in 1..Len(simplePaths) : results[i].threw
        THEN ShapesThrew("TypeError", "isCW")
        ELSE [ShapesFrom(simplePaths, isAHole, 1, <<>>) EXCEPT
                  !.isAHole = isAHole,
                  !.warned = \E i \in 1..Len(simplePaths) : results[i].warned]

\* The calls of createShapes about to be made, on paths of at most n subpaths
ShapeCalls(n) ==
    {[op |-> "createShapes", in |-> sp, out |-> NULL] : sp \in ShapePaths(n)}

\* A call of createShapes returns or throws
CreateShapes ==
    /\ svg.op = "createShapes" /\ svg.out = NULL
    /\ svg' = [svg EXCEPT !.out = Some(createShapes(svg.in))]
    /\ UNCHANGED layerVars

\* A layer at rest and a call of createShapes about to be made
InitShapes ==
    /\ InitLayer({CHOOSE c \in LayerCfgs : TRUE})
    /\ svg \in ShapeCalls(MaxSubPaths)

NextShapes == CreateShapes

\* The calls of createShapes
SpecShapes == InitShapes /\ [][NextShapes]_vars

\* ------------------------------------- SVG loader: pointsToStrokeWithBuffers

\* arcDivisions when the caller gives none (line 2401)
DefaultArcDivisions == 12

\* style.strokeLineJoin and style.strokeLineCap, as documented by
\* getStrokeStyle
LineJoins == {"bevel", "round", "miter", "miter-clip"}
LineCaps == {"round", "square", "butt"}

\* What the vector arithmetic of lines 2473-2521 finds at a point that has a
\* next point: the path goes straight on (dot = 0), or it turns with the join
\* on the left or on the right side, the inner side collapsed to one point
\* (innerSideModified) or not
JoinKinds == {"straight", "left", "right", "leftInner", "rightInner"}
JoinIsOnLeftSide(join) == join \in {"straight", "left", "leftInner"}
InnerSideModified(join) == join \in {"leftInner", "rightInner"}

\* The polylines of at most n points: each point with the join found at it
\* and with whether the next point is closer than minDistance. The first
\* point has no join, the first and the last are never removed.
Polylines(n) ==
    UNION {{p \in [1..k -> [near : BOOLEAN, join : JoinKinds]] :
              k > 0 => ~p[1].near /\ p[1].join = "straight" /\ ~p[k].near}
           : k \in 0..n}

\* The output buffers a caller passes: none (count only), the vertex buffer
\* alone, or vertices, normals and uvs
BufferArgs == {"none", "vertices", "all"}

\* removeDuplicatedPoints: keeps the first and the last point and every point
\* in between that is at least minDistance away from its successor
removeDuplicatedPoints(points) ==
    IF ~\E i \in 2..(Len(points) - 1) : points[i].near THEN points
    ELSE SelectSeq([i \in 1..Len(points) |-> [points[i] EXCEPT !.near =
                       i \in 2..(Len(points) - 1) /\ points[i].near]],
                   LAMBDA p : ~p.near)

\* The closure state of a call: the three counters of lines 2430-2432, the
\* indices written so far in each buffer, and whether a TypeError was thrown
StrokeStart(in) ==
    [numVertices |-> 0,
     currentCoordinate |-> in.vertexOffset * 3,
     currentCoordinateUV |-> in.vertexOffset * 2,
     vertices |-> {}, normals |-> {}, uvs |-> {},
     threw |-> FALSE]

\* addVertex: writes one position, one normal and one uv when the buffers
\* are there, and adds 3 to numVertices
addVertex(in, st) ==
    IF st.threw THEN st
    ELSE IF in.buffers # "none"
    THEN LET c == st.currentCoordinate
             cUV == st.currentCoordinateUV
         IN  [st EXCEPT
                 !.vertices = @ \cup {c, c + 1, c + 2},
                 !.normals = IF in.buffers = "all" THEN @ \cup {c, c + 1, c + 2} ELSE @,
                 !.currentCoordinate = c + 3,
                 !.uvs = IF in.buffers = "all" THEN @ \cup {cUV, cUV + 1} ELSE @,
                 !.currentCoordinateUV = IF in.buffers = "all" THEN cUV + 2 ELSE cUV,
                 !.numVertices = @ + 3]
    ELSE [st EXCEPT !.numVertices = @ + 3]

\* k calls of addVertex in a row: the writes are contiguous
addVertices(in, st, k) ==
    IF st.threw \/ k = 0 THEN st
    ELSE IF in.buffers # "none"
    THEN LET c == st.currentCoordinate
             cUV == st.currentCoordinateUV
         IN  [st EXCEPT
                 !.vertices = @ \cup (c..(c + 3 * k - 1)),
                 !.normals = IF in.buffers = "all" THEN @ \cup (c..(c + 3 * k - 1)) ELSE @,
                 !.currentCoordinate = c + 3 * k,
                 !.uvs = IF in.buffers = "all" THEN @ \cup (cUV..(cUV + 2 * k - 1)) ELSE @,
                 !.currentCoordinateUV = IF in.buffers = "all" THEN cUV + 2 * k ELSE cUV,
                 !.numVertices = @ + 3 * k]
    ELSE [st EXCEPT !.numVertices = @ + 3 * k]

\* toArray(a, vertices, offset): writes two elements of the vertex buffer at
\* an absolute offset; a TypeError when the buffer is undefined
toArray(in, st, offset) ==
    IF st.threw THEN st
    ELSE IF in.buffers = "none" THEN [st EXCEPT !.threw = TRUE]
    ELSE IF offset < 0 THEN st
    ELSE [st EXCEPT !.vertices = @ \cup {offset, offset + 1}]

\* vertices.length: the buffer holds the vertices before vertexOffset and
\* grows with the writes
VerticesLength(in, st) ==
    LET ends == {in.vertexOffset * 3} \cup {i + 1 : i \in st.vertices}
    IN  CHOOSE l \in ends : \A e \in ends : e <= l

makeSegmentTriangles(in, st) == addVertices(in, st, 6)

makeCircularSector(in, st) ==
    addVertices(in, addVertices(in, st, 3 * (DefaultArcDivisions - 1)), 3)

makeSegmentWithBevelJoin(in, st, innerSideModified) ==
    IF innerSideModified THEN addVertices(in, st, 9) ELSE addVertices(in, st, 3)

createSegmentTrianglesWithMiddleSection(in, st, innerSideModified) ==
    IF innerSideModified THEN addVertices(in, st, 12) ELSE st

\* addCapGeometry: a round cap is a circular sector; a square cap moves
\* vertices already written, those of the first segment at the start and
\* the last ones of the buffer at the end; a butt cap adds nothing
addCapGeometry(in, st, joinIsOnLeftSide, start) ==
    IF in.lineCap = "round" THEN makeCircularSector(in, st)
    ELSE IF in.lineCap = "square"
    THEN IF start
         THEN IF joinIsOnLeftSide
              THEN toArray(in, toArray(in, toArray(in, st, 1 * 3), 0 * 3), 3 * 3)
              ELSE toArray(in, toArray(in, toArray(in, st, 1 * 3), 3 * 3), 0 * 3)
         ELSE IF st.threw THEN st
         ELSE IF in.buffers = "none" THEN [st EXCEPT !.threw = TRUE]
         ELSE LET vl == VerticesLength(in, st)
              IN  IF joinIsOnLeftSide
                  THEN toArray(in, toArray(in, toArray(in, st, vl - 1 * 3),
                                           vl - 2 * 3), vl - 4 * 3)
                  ELSE toArray(in, toArray(in, toArray(in, st, vl - 2 * 3),
                                           vl - 1 * 3), vl - 4 * 3)
    ELSE st

\* The join of lines 2545-2710 at a point where the path turns
StrokeJoin(in, st, join) ==
    LET inner == InnerSideModified(join)
        segment == IF inner THEN st ELSE makeSegmentTriangles(in, st)
    IN  IF in.lineJoin = "bevel"
        THEN makeSegmentWithBevelJoin(in, segment, inner)
        ELSE IF in.lineJoin = "round"
        THEN makeCircularSector(in,
                 createSegmentTrianglesWithMiddleSection(in, segment, inner))
        ELSE IF in.overLimit
        THEN IF in.lineJoin # "miter-clip"
             THEN makeSegmentWithBevelJoin(in, segment, inner)
             ELSE addVertices(in,
                      createSegmentTrianglesWithMiddleSection(in, segment, inner), 9)
        ELSE addVertices(in, segment, 6)

\* isMiter after the join: set by the miter branch within the limit only
IsMiterAfter(in) == in.lineJoin \in {"miter", "miter-clip"} /\ ~in.overLimit

\* The loop of lines 2441-2744 from iPoint on; ctl holds joinIsOnLeftSide,
\* initialJoinIsOnLeftSide, innerSideModified and isMiter
RECURSIVE StrokeLoop(_, _, _, _, _)
StrokeLoop(in, points, iPoint, st, ctl) ==
    LET numPoints == Len(points)
    IN  IF iPoint > numPoints - 1 THEN [st |-> st, ctl |-> ctl]
        ELSE LET hasNext == iPoint < numPoints - 1 \/ in.isClosed
                 join == points[iPoint + 1].join
                 turns == hasNext /\ join # "straight"
                 left == IF hasNext THEN JoinIsOnLeftSide(join)
                         ELSE ctl.joinIsOnLeftSide
                 ctl2 == [joinIsOnLeftSide |-> left,
                          initialJoinIsOnLeftSide |->
                              IF hasNext /\ iPoint = 1 THEN left
                              ELSE ctl.initialJoinIsOnLeftSide,
                          innerSideModified |-> turns /\ InnerSideModified(join),
                          isMiter |-> IF turns THEN IsMiterAfter(in) ELSE ctl.isMiter]
                 st2 == IF turns THEN StrokeJoin(in, st, join)
                        ELSE makeSegmentTriangles(in, st)
                 st3 == IF ~in.isClosed /\ iPoint = numPoints - 1
                        THEN addCapGeometry(in, st2, left, TRUE)
                        ELSE st2
             IN  StrokeLoop(in, points, iPoint + 1, st3, ctl2)

\* The patch of the first segment of a closed path, lines 2751-2797
ClosedPathPatch(in, st, ctl) ==
    IF ctl.joinIsOnLeftSide
    THEN IF ctl.isMiter \/ ctl.initialJoinIsOnLeftSide
         THEN LET inner == toArray(in, toArray(in, st, 0 * 3), 3 * 3)
              IN  IF ctl.isMiter THEN toArray(in, inner, 1 * 3) ELSE inner
         ELSE st
    ELSE IF ctl.isMiter \/ ~ctl.initialJoinIsOnLeftSide
         THEN LET inner == toArray(in, toArray(in, st, 1 * 3), 3 * 3)
              IN  IF ctl.isMiter THEN toArray(in, inner, 0 * 3) ELSE inner
         ELSE st

\* What a call leaves: the value returned or the error thrown, and the
\* indices written in each buffer
StrokeOutcome(st) ==
    [threw |-> st.threw,
     error |-> IF st.threw THEN "TypeError" ELSE "",
     count |-> IF st.threw THEN NULL ELSE Some(st.numVertices),
     vertices |-> st.vertices, normals |-> st.normals, uvs |-> st.uvs]

pointsToStrokeWithBuffers(in) ==
    LET points == removeDuplicatedPoints(in.points)
        numPoints == Len(points)
    IN  IF numPoints < 2 THEN StrokeOutcome(StrokeStart(in))
        ELSE LET end == StrokeLoop(in, points, 1, StrokeStart(in),
                                   [joinIsOnLeftSide |-> FALSE,
                                    initialJoinIsOnLeftSide |-> FALSE,
                                    innerSideModified |-> FALSE,
                                    isMiter |-> FALSE])
             IN  IF ~in.isClosed
                 THEN StrokeOutcome(addCapGeometry(in, end.st,
                                        end.ctl.joinIsOnLeftSide, FALSE))
                 ELSE IF end.ctl.innerSideModified /\ in.buffers # "none"
                 THEN StrokeOutcome(ClosedPathPatch(in, end.st, end.ctl))
                 ELSE StrokeOutcome(end.st)

\* The calls of pointsToStrokeWithBuffers about to be made, on polylines of
\* at most n points
StrokeCalls(n) ==
    {[op |-> "pointsToStrokeWithBuffers", in |-> i, out |-> NULL] :
        i \in [points : Polylines(n), isClosed : BOOLEAN,
               lineJoin : LineJoins, lineCap : LineCaps, overLimit : BOOLEAN,
               buffers : BufferArgs, vertexOffset : {0, 2}]}

\* A call of pointsToStrokeWithBuffers returns or throws
PointsToStrokeWithBuffers ==
    /\ svg.op = "pointsToStrokeWithBuffers" /\ svg.out = NULL
    /\ svg' = [svg EXCEPT !.out = Some(pointsToStrokeWithBuffers(svg.in))]
    /\ UNCHANGED layerVars

\* A layer at rest and a call of pointsToStrokeWithBuffers about to be made
InitStroke ==
    /\ InitLayer({CHOOSE c \in LayerCfgs : TRUE})
    /\ svg \in StrokeCalls(MaxPoints)

NextStroke == PointsToStrokeWithBuffers

\* The calls of pointsToStrokeWithBuffers
SpecStroke == InitStroke /\ [][NextStroke]_vars

\* ------------------------------------------------- SVG loader: parseStyle

\* The values a style property may be given
StyleValues == {"red", "green", "blue"}

\* The nodes given to parseStyle, seen through one style property (fill):
\* the value of the presentation attribute, the value the stylesheet rules
\* of the node's classes and of the node's id give, and the value of the
\* inline style, each NULL when absent
StyleNodes ==
    [attribute : {NULL} \cup {Some(v) : v \in StyleValues},
     classRule : {NULL} \cup {Some(v) : v \in StyleValues},
     idRule : {NULL} \cup {Some(v) : v \in StyleValues},
     inline : {NULL} \cup {Some(v) : v \in StyleValues}]

\* stylesheetStyles: the rules of the classes, then the rule of the id
\* assigned over them
StylesheetStyles(node) ==
    IF node.idRule # NULL THEN node.idRule ELSE node.classRule

\* addStyle with the three assignments in the opposite order
addStyle_AttributeLast(node, stylesheetStyles, style) ==
    LET inline == IF node.inline # NULL THEN node.inline ELSE style
        sheet == IF stylesheetStyles # NULL THEN stylesheetStyles ELSE inline
    IN  IF node.attribute # NULL THEN node.attribute ELSE sheet

\* addStyle: three assignments in a row, each overwriting the one before:
\* the attribute, the stylesheet value, the inline style
addStyle(node, stylesheetStyles, style) ==
    LET attribute == IF node.attribute # NULL THEN node.attribute ELSE style
        sheet == IF stylesheetStyles # NULL THEN stylesheetStyles ELSE attribute
    IN  IF node.inline # NULL THEN node.inline ELSE sheet

\* parseStyle(node, style): a clone of the inherited style with the node's
\* own values assigned
parseStyle(node, style) ==
    [fill |-> addStyle(node, StylesheetStyles(node), style.fill)]

\* The calls of parseStyle about to be made
StyleCalls(values) ==
    {[op |-> "parseStyle", in |-> i, out |-> NULL] :
        i \in [node : StyleNodes,
               style : [fill : {NULL} \cup {Some(v) : v \in values}]]}

\* A call of parseStyle returns
ParseStyle ==
    /\ svg.op = "parseStyle" /\ svg.out = NULL
    /\ svg' = [svg EXCEPT !.out = Some(parseStyle(svg.in.node, svg.in.style))]
    /\ UNCHANGED layerVars

\* A layer at rest and a call of parseStyle about to be made
InitStyle ==
    /\ InitLayer({CHOOSE c \in LayerCfgs : TRUE})
    /\ svg \in StyleCalls(StyleValues)

NextStyle == ParseStyle

\* The calls of parseStyle
SpecStyle == InitStyle /\ [][NextStyle]_vars

\* ------------------------------------------------------ claims: SVG loader

\* A call of parseFloats has returned or thrown
Parsed == svg.op = "parseFloats" /\ svg.out # NULL

\* The input has two decimal points in a row
HasDoublePoint(input) ==
    \E i \in 1..Len(input) - 1 : input[i] \in POINT /\ input[i + 1] \in POINT

\* The input has a sign right after a sign
HasDoubleSign(input) ==
    \E i \in 1..Len(input) - 1 : input[i] \in SIGN /\ input[i + 1] \in SIGN

\* The input has two commas with nothing but whitespace between them
HasDoubleComma(input) ==
    \E i, j \in 1..Len(input) :
        /\ i < j /\ input[i] \in COMMA /\ input[j] \in COMMA
        /\ \A k \in i + 1..j - 1 : input[k] \in WHITESPACE

\* C16: an input of parseFloats with two decimal points in a row, a sign right
\* after a sign, or two commas with only whitespace between them makes it throw
\* a syntax error; it returns no list.
C16_MalformedListsThrow ==
    Parsed /\ ( \/ HasDoublePoint(svg.in.input)
                \/ HasDoubleSign(svg.in.input)
                \/ HasDoubleComma(svg.in.input) )
        => Val(svg.out).threw

\* C16 witness: "1, ,1" without flags was refused at its second comma
C16_Witness ==
    /\ Parsed /\ svg.in.flagArgs = NULL
    /\ svg.in.input = <<"1", ",", " ", ",">>
    /\ Val(svg.out).threw
    /\ Val(svg.out).error.index = 3

\* A call of parseFloats has thrown
Failed == Parsed /\ Val(svg.out).threw

\* The input before the index the error names
FailedPrefix == SubSeq(svg.in.input, 1, Val(svg.out).error.index)

\* What parseFloats makes of the input before the index the error names
FailedBefore == parseFloats(FailedPrefix, svg.in.flagArgs)

\* A list without its last element
Front(s) == SubSeq(s, 1, Len(s) - 1)

ParsedDoc == svg.op = "parse" /\ svg.out # NULL

\* The nodes the depth-first walk of a document reaches from a node on, in
\* document order: the node, the node a use refers to, and the children of
\* every element but defs
RECURSIVE Walk(_, _)
RECURSIVE WalkAll(_, _)
Walk(doc, ix) ==
    IF doc[ix].nodeType # ELEMENT_NODE THEN <<>>
    ELSE (IF doc[ix].nodeName = "use" /\ doc[ix].href # 0
          THEN Walk(doc, doc[ix].href) ELSE <<>>)
         \o <<ix>>
         \o (IF doc[ix].nodeName = "defs" THEN <<>>
             ELSE WalkAll(doc, ChildNodes(doc, ix)))

WalkAll(doc, nodes) ==
    IF nodes = <<>> THEN <<>>
    ELSE Walk(doc, Head(nodes)) \o WalkAll(doc, Tail(nodes))

\* The path-producing elements among the nodes the walk reaches
PathNodes(doc) ==
    SelectSeq(Walk(doc, 1), LAMBDA ix : MakesPath(doc[ix]))

\* C18: parse returns a path list holding exactly one Path for each
\* path-producing element (a path with a d attribute, a rect and the like) the
\* depth-first walk of the document reaches from its root element, in document
\* order; the children of a defs element give a Path only through a use node.
C18_OnePathPerElementReached ==
    ParsedDoc =>
        LET paths == Val(svg.out).paths
            nodes == PathNodes(svg.in)
        IN  /\ Len(paths) = Len(nodes)
            /\ \A i \in 1..Len(nodes) : paths[i].userData = DomNode(nodes[i])

\* A call of createShapes has returned or thrown
Shaped == svg.op = "createShapes" /\ svg.out # NULL

\* The path has exactly two subpaths, an outer clockwise one that encloses an
\* inner counter-clockwise one, under the nonzero fill rule or none
OuterAndInner ==
    /\ Len(svg.in.subPaths) = 2
    /\ svg.in.fillRule \in {"", "nonzero"}
    /\ \E o, i \in 1..2 :
          /\ o # i
          /\ svg.in.subPaths[o].isCW /\ ~svg.in.subPaths[i].isCW
          /\ svg.in.subPaths[o].points > 1 /\ svg.in.subPaths[i].points > 1
          /\ svg.in.subPaths[o].crossed = <<>>
          /\ svg.in.subPaths[i].crossed = <<svg.in.subPaths[o].curves>>

\* C19: createShapes on a path with exactly two subpaths, an outer clockwise
\* one that encloses an inner counter-clockwise one, under the nonzero fill
\* rule (also when the fill rule is absent) returns exactly one Shape, built
\* from the outer subpath, whose holes list has length 1 and holds the inner
\* subpath.
C19_OuterShapeWithInnerHole ==
    Shaped /\ OuterAndInner =>
        LET out == Val(svg.out)
            o == CHOOSE o \in 1..2 : svg.in.subPaths[o].crossed = <<>>
        IN  /\ ~out.threw
            /\ Len(out.shapes) = 1
            /\ out.shapes[1].curves = svg.in.subPaths[o].curves
            /\ out.shapes[1].holes = <<svg.in.subPaths[3 - o].curves>>

\* The simple paths of the call that survive the removal of those of fewer
\* than 2 points
ShapedPaths == WithPoints(SimplePaths(svg.in.subPaths))

\* What isHoleTo makes of simple path i of the call
ShapedAs(i) == isHoleTo(ShapedPaths[i], ShapedPaths, svg.in.fillRule)

\* Every simple path of the call is classified, as a hole or as not a hole
AllClassified ==
    \A i \in 1..Len(ShapedPaths) : ~ShapedAs(i).threw /\ ShapedAs(i).value # NULL

\* The elements of a list
Range(s) == {s[i] : i \in 1..Len(s)}

\* C20: the list createShapes returns has one Shape per subpath classified as
\* not a hole, in subpath order, and each subpath classified as a hole is in
\* the holes list of the Shape built from the subpath recorded as its owner,
\* and in no other Shape's holes list.
C20_ShapesFollowClassification ==
    Shaped /\ AllClassified =>
        LET out == Val(svg.out)
            solid == SelectSeq(ShapedPaths,
                               LAMBDA p : \E i \in 1..Len(ShapedPaths) :
                                   /\ ShapedPaths[i] = p
                                   /\ ~Val(ShapedAs(i).value).isHole)
            holes == {i \in 1..Len(ShapedPaths) : Val(ShapedAs(i).value).isHole}
        IN  /\ ~out.threw
            /\ Len(out.shapes) = Len(solid)
            /\ \A k \in 1..Len(solid) : out.shapes[k].curves = solid[k].curves
            /\ \A i \in holes :
                  /\ \E k \in 1..Len(solid) :
                        /\ Some(solid[k].identifier) = Val(ShapedAs(i).value).for
                        /\ ShapedPaths[i].curves \in Range(out.shapes[k].holes)
                  /\ \A k \in 1..Len(solid) :
                        ShapedPaths[i].curves \in Range(out.shapes[k].holes)
                            => Some(solid[k].identifier) = Val(ShapedAs(i).value).for

\* The containment stack of simple path i of the call: the subpaths that
\* enclose it, and the path itself on top
ShapedStack(i) ==
    Append(HoleStack(<<>>, ShapedPaths[i].crossed), ShapedPaths[i].identifier)

\* C21: under the evenodd fill rule, isHoleTo classifies a subpath as a hole
\* iff its final containment stack has even depth, and records as its owner
\* the second-to-top stack entry; a subpath enclosed by nothing is never a hole.
C21_EvenOddByStackDepth ==
    Shaped /\ svg.in.fillRule = "evenodd" /\ ShapedPaths # <<>> =>
        LET isAHole == Val(svg.out).isAHole
        IN  /\ Len(isAHole) = Len(ShapedPaths)
            /\ \A i \in 1..Len(ShapedPaths) :
                  LET stack == ShapedStack(i)
                  IN  /\ isAHole[i] # NULL
                      /\ Val(isAHole[i]).isHole <=> Len(stack) % 2 = 0
                      /\ Len(stack) > 1 =>
                            Val(isAHole[i]).for = Some(stack[Len(stack) - 1])
                      /\ Len(stack) = 1 => ~Val(isAHole[i]).isHole

\* The winding direction of the simple path of the call with an identifier
ShapedCW(identifier) ==
    (CHOOSE p \in Range(ShapedPaths) : p.identifier = identifier).isCW

\* The walk of a stack from entry k on that toggles between hole and not-hole
\* exactly when the direction of an entry differs from that of the entry
\* before it, the owner the entry of the last toggle to not-hole
RECURSIVE ToggleWalk(_, _, _, _)
ToggleWalk(stack, k, isHole, owner) ==
    IF k > Len(stack) THEN [isHole |-> isHole, for |-> owner]
    ELSE IF ShapedCW(stack[k]) # ShapedCW(stack[k - 1])
    THEN ToggleWalk(stack, k + 1, ~isHole,
                    IF isHole THEN Some(stack[k]) ELSE owner)
    ELSE ToggleWalk(stack, k + 1, isHole, owner)

\* C22: under the nonzero fill rule, also when no rule is given, isHoleTo walks
\* the containment stack from the bottom and toggles between hole and not-hole
\* each time the winding direction of an entry differs from that of the entry
\* before it, and only then; the classification is the state after the last
\* entry and the owner the identifier at the last toggle to not-hole.
C22_NonZeroTogglesOnDirectionChange ==
    /\ Shaped /\ svg.in.fillRule \in {"", "nonzero"} /\ ShapedPaths # <<>>
    /\ \A i \in 1..Len(ShapedPaths) :
          \A k \in 1..Len(ShapedStack(i)) :
              \E p \in Range(ShapedPaths) : p.identifier = ShapedStack(i)[k]
    => LET isAHole == Val(svg.out).isAHole
       IN  /\ Len(isAHole) = Len(ShapedPaths)
           /\ \A i \in 1..Len(ShapedPaths) :
                 LET stack == ShapedStack(i)
                     walk == ToggleWalk(stack, 2, FALSE, Some(stack[1]))
                 IN  /\ isAHole[i] # NULL
                     /\ Val(isAHole[i]).isHole = walk.isHole
                     /\ Val(isAHole[i]).for = walk.for

\* A call of pointsToStrokeWithBuffers has returned or thrown
Stroked == svg.op = "pointsToStrokeWithBuffers" /\ svg.out # NULL

\* C23: a call without output buffers, on a polyline that keeps at least two
\* points, open or closed, with any join and any cap, returns, and returns
\* the count that the same call with buffers returns.
C23_CountOnlyCallAgreesWithBufferedCall ==
    /\ Stroked
    /\ svg.in.buffers = "none"
    /\ Len(removeDuplicatedPoints(svg.in.points)) >= 2
    => /\ ~Val(svg.out).threw
       /\ Val(svg.out).count =
              pointsToStrokeWithBuffers([svg.in EXCEPT !.buffers = "all"]).count

\* C24: a call with all three buffers returns the number of vertices it
\* wrote: counted from vertexOffset, 3 x count elements of the vertex and
\* of the normal buffer and 2 x count elements of the uv buffer are written,
\* and nothing else; with fewer than two points left it returns 0 and
\* writes nothing.
C24_ReturnsNumberOfVerticesWritten ==
    Stroked /\ svg.in.buffers = "all"
    => LET out == Val(svg.out)
           offset == svg.in.vertexOffset
       IN  IF Len(removeDuplicatedPoints(svg.in.points)) < 2
           THEN /\ out.count = Some(0)
                /\ out.vertices = {} /\ out.normals = {} /\ out.uvs = {}
           ELSE /\ ~out.threw
                /\ out.vertices = (3 * offset)..(3 * offset + 3 * Val(out.count) - 1)
                /\ out.normals = (3 * offset)..(3 * offset + 3 * Val(out.count) - 1)
                /\ out.uvs = (2 * offset)..(2 * offset + 2 * Val(out.count) - 1)

\* C25: a call with a vertexOffset above zero writes no element of the
\* vertex or of the normal buffer below 3 x vertexOffset and no element of
\* the uv buffer below 2 x vertexOffset.
C25_NoWriteBelowVertexOffset ==
    Stroked /\ svg.in.vertexOffset > 0
    => LET out == Val(svg.out)
       IN  /\ \A i \in out.vertices \cup out.normals : i >= 3 * svg.in.vertexOffset
           /\ \A i \in out.uvs : i >= 2 * svg.in.vertexOffset

\* C26: createShapes on a path whose fill rule is not one it implements,
\* with a subpath left to classify, emits the warning and returns its list
\* of shapes without throwing.
C26_UnknownFillRuleWarnsAndReturns ==
    /\ Shaped
    /\ svg.in.fillRule \notin {"", "nonzero", "evenodd"}
    /\ ShapedPaths # <<>>
    => /\ ~Val(svg.out).threw
       /\ Val(svg.out).warned

\* The use nodes that refer to no node, among the nodes the walk reaches
DanglingUses(doc) ==
    SelectSeq(Walk(doc, 1),
              LAMBDA ix : doc[ix].nodeName = "use" /\ doc[ix].href = 0)

\* C27: when the walk of a document reaches a use node that refers to no
\* node, parse warns about that node, the node gives no path, and the paths
\* of the path-producing elements before and after it are returned.
C27_DanglingUseWarnsAndParseGoesOn ==
    ParsedDoc /\ DanglingUses(svg.in) # <<>>
    => /\ Val(svg.out).warned = DanglingUses(svg.in)
       /\ [i \in 1..Len(Val(svg.out).paths) |-> Val(svg.out).paths[i].userData.ix]
              = PathNodes(svg.in)

\* A call of parseStyle has returned
Styled == svg.op = "parseStyle" /\ svg.out # NULL

\* The value of the property after parseStyle
Computed == Val(svg.out).fill

\* C28, as stated: with the attribute, a stylesheet rule and the inline style
\* all giving the property, the computed value is the attribute's; with no
\* attribute, the stylesheet's value wins over the inline style's.
C28_AttributeOverStylesheetOverInline ==
    Styled /\ StylesheetStyles(svg.in.node) # NULL /\ svg.in.node.inline # NULL
    => IF svg.in.node.attribute # NULL
       THEN Computed = svg.in.node.attribute
       ELSE Computed = StylesheetStyles(svg.in.node)

\* C28, amended: the precedence is inline style > stylesheet > attribute.
\* With all three giving the property the computed value is the inline
\* style's; with no inline style the stylesheet's value wins over the
\* attribute's; the attribute wins over the inherited value only.
C28_InlineOverStylesheetOverAttribute ==
    Styled
    => LET node == svg.in.node
       IN  /\ node.inline # NULL => Computed = node.inline
           /\ node.inline = NULL /\ StylesheetStyles(node) # NULL
                  => Computed = StylesheetStyles(node)
           /\ node.inline = NULL /\ StylesheetStyles(node) = NULL
                  /\ node.attribute # NULL
                  => Computed = node.attribute

\* The three sources give three different values and the inline style's is
\* the one computed
C28_Witness ==
    /\ Styled
    /\ svg.in.node.attribute = Some("red")
    /\ StylesheetStyles(svg.in.node) = Some("green")
    /\ svg.in.node.inline = Some("blue")
    /\ Computed = Some("blue")

\* ------------------------------------------ claims: flags and draw passes

\* C29: after setPickable(k, flags, transparent) on a finalized layer, the
\* pick byte (byte 3) of portion k in the flags buffer is PICK exactly when
\* the flags passed have VISIBLE and PICKABLE set and CULLED clear, and
\* NOT_RENDERED otherwise.
C29_SetPickableWritesPickByte ==
    [][ (finalized /\ last'.op = "setPickable" /\ ~last'.threw
             /\ state'.flagsBuf # NULL)
        => LET k == last'.k
               flags == entity'[k + 1].flags
               pick == Val(state'.flagsBuf)[4 * k + 4]
           IN  pick = IF "VISIBLE" \in flags /\ "PICKABLE" \in flags
                          /\ "CULLED" \notin flags
                      THEN RENDER_PASSES.PICK_
                      ELSE RENDER_PASSES.NOT_RENDERED ]_vars

\* The last draw method issued no draw call
NoDraw == last.draws = <<>>

\* C30: drawColorOpaque, drawDepth and drawNormals issue no draw call when
\* the transparent count or the xrayed count equals the portion count;
\* drawColorTransparent issues none when the transparent count is zero or the
\* xrayed count equals the portion count; the silhouette and the edge pass of
\* xrayed, highlighted or selected portions issue none when that counter is
\* zero; both edge-color passes issue none when the edges count is zero.
C30_PassSpecificGuards ==
    /\ (/\ last.op \in {"drawColorOpaque", "drawDepth", "drawNormals"}
         /\ \/ counts.numTransparentLayerPortions = numPortions
            \/ counts.numXRayedLayerPortions = numPortions)
           => NoDraw
    /\ (/\ last.op = "drawColorTransparent"
         /\ \/ counts.numTransparentLayerPortions = 0
            \/ counts.numXRayedLayerPortions = numPortions)
           => NoDraw
    /\ (/\ last.op \in {"drawSilhouetteXRayed", "drawEdgesXRayed"}
         /\ counts.numXRayedLayerPortions = 0)
           => NoDraw
    /\ (/\ last.op \in {"drawSilhouetteHighlighted", "drawEdgesHighlighted"}
         /\ counts.numHighlightedLayerPortions = 0)
           => NoDraw
    /\ (/\ last.op \in {"drawSilhouetteSelected", "drawEdgesSelected"}
         /\ counts.numSelectedLayerPortions = 0)
           => NoDraw
    /\ (/\ last.op \in {"drawEdgesColorOpaque", "drawEdgesColorTransparent"}
         /\ counts.numEdgesLayerPortions = 0)
           => NoDraw

\* C30 witness: drawColorOpaque was skipped on a layer whose portions are all
\* visible, none culled or xrayed, and all transparent
C30_Witness ==
    /\ last.op = "drawColorOpaque" /\ numPortions > 0
    /\ counts.numVisibleLayerPortions = numPortions
    /\ counts.numCulledLayerPortions = 0
    /\ counts.numXRayedLayerPortions = 0
    /\ counts.numTransparentLayerPortions = numPortions
    /\ NoDraw /\ last.gl = <<>>

\* drawColorOpaque went past its guard: the frame context and the model
\* switches it was given
OpaqueDrawn == last.op = "drawColorOpaque" /\ last.args # <<>>
OpaqueFrame == last.args[1]
OpaqueSwitches == last.args[2]

\* The variant the priority PBR quality > color texture > vertex-normal-lit >
\* flat-shaded gives, each variant taken when the frame and the model enable
\* it and the layer has the buffers the method tests
OpaqueVariant ==
    IF OpaqueFrame.pbrEnabled /\ OpaqueSwitches.pbrEnabled /\ cfg.normalsBuf
    THEN "colorQualityRenderer"
    ELSE IF OpaqueFrame.colorTextureEnabled /\ OpaqueSwitches.colorTextureEnabled
            /\ state.colorTextureSupported
    THEN "colorTextureRenderer"
    ELSE IF cfg.normalsBuf THEN "colorRenderer"
    ELSE "flatColorRenderer"

\* C31: drawColorOpaque past its guard issues at most one drawLayer call; the
\* call is on the variant of the priority PBR quality > color texture >
\* vertex-normal-lit > flat-shaded, of the with-SAO family exactly when the
\* frame has SAO and the model has SAO enabled, and its pass is COLOR_OPAQUE.
C31_OpaqueVariantByPriority ==
    OpaqueDrawn =>
        /\ Len(last.draws) <= 1
        /\ \A i \in 1..Len(last.draws) :
              /\ last.draws[i].pass = RENDER_PASSES.COLOR_OPAQUE
              /\ last.draws[i].renderer =
                     IF OpaqueFrame.withSAO /\ OpaqueSwitches.saoEnabled
                     THEN OpaqueVariant \o "WithSAO"
                     ELSE OpaqueVariant

\* C31 witness: with PBR and color textures both enabled on a layer that
\* supports color textures, the call went to the PBR variant with SAO
C31_Witness ==
    /\ OpaqueDrawn
    /\ OpaqueFrame.withSAO /\ OpaqueSwitches.saoEnabled
    /\ OpaqueFrame.pbrEnabled /\ OpaqueSwitches.pbrEnabled
    /\ OpaqueFrame.colorTextureEnabled /\ OpaqueSwitches.colorTextureEnabled
    /\ state.colorTextureSupported
    /\ last.draws = <<[renderer |-> "colorQualityRendererWithSAO",
                       pass |-> RENDER_PASSES.COLOR_OPAQUE]>>

\* C32: drawColorOpaque and drawColorTransparent call the PBR variant only on
\* a layer whose pbrSupported flag is true.
C32_PbrVariantOnlyWhenSupported ==
    last.op \in {"drawColorOpaque", "drawColorTransparent"}
    => \A i \in 1..Len(last.draws) :
          last.draws[i].renderer \in
              {"colorQualityRenderer", "colorQualityRendererWithSAO"}
          => state.pbrSupported

\* The top of the transform stack, the identity when the stack is empty
TopTransform(w) ==
    IF Len(w.transformStack) > 0 THEN w.transformStack[Len(w.transformStack)]
    ELSE mat3

FlagByteOf(pass) ==
    CASE pass \in {RENDER_PASSES.COLOR_OPAQUE, RENDER_PASSES.COLOR_TRANSPARENT} -> 0
      [] pass \in {RENDER_PASSES.SILHOUETTE_HIGHLIGHTED,
                   RENDER_PASSES.SILHOUETTE_SELECTED,
                   RENDER_PASSES.SILHOUETTE_XRAYED} -> 1
      [] pass = RENDER_PASSES.PICK_ -> 3
      [] OTHER -> 2

\* The flags have been given once to every portion of a finalized layer whose
\* flags buffer exists
AllFlagsGiven ==
    /\ finalized /\ numPortions > 0 /\ state.flagsBuf # NULL
    /\ \A k \in PortionIds : entity[k + 1].inited

\* Some portion's stored flag byte selects the pass of a draw method
HasWork(op) ==
    \E k \in PortionIds :
        Val(state.flagsBuf)[4 * k + FlagByteOf(RenderPassOf(op)) + 1]
            = RenderPassOf(op)

\* C34: skip soundness. On a finalized layer where initFlags was called once
\* for each portion and every later mutator call changes its flag, a draw
\* method's guard does not return early while some portion's stored flag byte
\* (byte 0 for the color passes, 1 for silhouettes, 2 for edges, 3 for pick)
\* equals the method's pass constant.
C34_NoPassSkippedWhileItHasWork ==
    AllFlagsGiven =>
        \A op \in DrawOps : HasWork(op) => ~DrawSkips(op, counts, numPortions)

\* C34 witness: after a call of setTransparent that made one of two portions
\* transparent, the other one opaque and shown, drawColorOpaque and
\* drawColorTransparent both have work and neither is skipped
C34_Witness ==
    /\ AllFlagsGiven /\ numPortions = 2
    /\ last.op = "setTransparent" /\ ~last.threw
    /\ HasWork("drawColorOpaque") /\ HasWork("drawColorTransparent")
    /\ ~DrawSkips("drawColorOpaque", counts, numPortions)
    /\ ~DrawSkips("drawColorTransparent", counts, numPortions)

\* The mutators C35 is about
MutatorOps ==
    {"setVisible", "setHighlighted", "setXRayed", "setSelected", "setEdges",
     "setClippable", "setCollidable", "setPickable", "setCulled", "setColor",
     "setOffset", "setTransparent"}

\* The step is a call of a mutator that throws, or after which some buffer
\* reference or some buffer's content is not what it was
ThrowsOrWrites ==
    /\ last'.op \in MutatorOps
    /\ last'.threw \/ \E b \in Buffers : state'[b] # state[b]

\* C35 (as claimed): after destroy, every call of a mutator (setVisible ..
\* setCulled, setColor, setOffset, setTransparent) completes without throwing
\* and without writing to any buffer.
C35_NoThrowNoWriteAfterDestroy ==
    [][gpu.destroys > 0 => ~ThrowsOrWrites]_vars

\* The layer was finalized and every buffer it created has been released
Released ==
    /\ finalized /\ gpu.destroys > 0
    /\ \A b \in Buffers : state[b] = NULL

\* C35 (amended): after destroy on a finalized layer, every call of a mutator
\* completes without throwing and without writing to any buffer, each write
\* being guarded by the buffer reference destroy nulled. (A layer destroyed
\* before finalize still throws "Not finalized", and a finalize that comes
\* after destroy creates buffers the mutators write to.)
C35_NoThrowNoWriteAfterDestroyOfFinalized ==
    [][Released => ~ThrowsOrWrites]_vars

\* C35 witness: setColor has returned on a finalized layer with a portion whose
\* buffers destroy had released, and the colors buffer is still null
C35_Witness ==
    /\ Released /\ numPortions > 0
    /\ last.op = "setColor" /\ ~last.threw
    /\ gpu.created["colorsBuf"] = 1 /\ gpu.destroyed["colorsBuf"] = 1

\* C36: every simple path that survives the removal of the subpaths of fewer
\* than 2 points has an identifier equal to its index in the surviving list,
\* so the lookups by identifier (allPaths[id] in isHoleTo, isAHole[id] and
\* simplePaths[id] in the assembly) return the record of that same path,
\* wherever the removed subpaths were.
C36_IdentifierIsIndexAfterFilter ==
    Shaped =>
        \A i \in 1..Len(ShapedPaths) :
            /\ ShapedPaths[i].identifier = i - 1
            /\ At(ShapedPaths, ShapedPaths[i].identifier) = Some(ShapedPaths[i])

\* The containment stack of subpath j of the call, by the identifiers the
\* subpaths are given before any is removed
SubPathStack(j) ==
    Append(HoleStack(<<>>, svg.in.subPaths[j].crossed), j - 1)

\* The input is properly nested: the containment stack of each subpath is the
\* stack of the subpath that encloses it, with the subpath itself on top
ProperlyNested ==
    \A j \in 1..Len(svg.in.subPaths) :
        LET stack == SubPathStack(j)
        IN  Len(stack) > 1 =>
                stack = Append(SubPathStack(stack[Len(stack) - 1] + 1), j - 1)

\* The number of holes attached to the shapes from shape k on
RECURSIVE AttachedHoles(_, _)
AttachedHoles(shapes, k) ==
    IF k > Len(shapes) THEN 0
    ELSE Len(shapes[k].holes) + AttachedHoles(shapes, k + 1)

\* C37: no subpath is lost on properly nested input. Under both fill rules the
\* owner recorded for every hole is itself classified as not a hole, and the
\* number of Shapes returned plus the number of holes attached to them is the
\* number of subpaths with at least 2 points.
C37_NoSubPathLost ==
    Shaped /\ ProperlyNested /\ svg.in.fillRule \in {"", "nonzero", "evenodd"} =>
        LET out == Val(svg.out)
        IN  /\ ~out.threw
            /\ Len(out.isAHole) = Len(ShapedPaths)
            /\ \A i \in 1..Len(out.isAHole) :
                  Val(out.isAHole[i]).isHole =>
                      \E o \in 1..Len(out.isAHole) :
                          /\ Some(Val(out.isAHole[o]).identifier)
                                 = Val(out.isAHole[i]).for
                          /\ ~Val(out.isAHole[o]).isHole
            /\ Len(out.shapes) + AttachedHoles(out.shapes, 1) = Len(ShapedPaths)

\* The signed winding count of a containment stack from entry k on: +1 for a
\* clockwise entry, -1 for a counter-clockwise one
RECURSIVE WindingCount(_, _)
WindingCount(stack, k) ==
    IF k > Len(stack) THEN 0
    ELSE (IF ShapedCW(stack[k]) THEN 1 ELSE -1) + WindingCount(stack, k + 1)

\* C38: the classification of isHoleTo under the nonzero fill rule agrees with
\* the nonzero winding rule: a subpath is classified as a hole exactly when
\* the signed winding count of the entries of its containment stack, itself
\* included, is zero.
C38_NonZeroAgreesWithWindingCount ==
    /\ Shaped /\ svg.in.fillRule \in {"", "nonzero"} /\ ShapedPaths # <<>>
    /\ \A i \in 1..Len(ShapedPaths) :
          \A k \in 1..Len(ShapedStack(i)) :
              \E p \in Range(ShapedPaths) : p.identifier = ShapedStack(i)[k]
    => LET isAHole == Val(svg.out).isAHole
       IN  /\ Len(isAHole) = Len(ShapedPaths)
           /\ \A i \in 1..Len(ShapedPaths) :
                 /\ isAHole[i] # NULL
                 /\ Val(isAHole[i]).isHole
                        <=> WindingCount(ShapedStack(i), 1) = 0

\* The calls of load that are waiting for the data source
Fetching == {i \in DOMAIN svg.loads : svg.loads[i].pc = "fetching"}

\* C40: the busy counter is balanced. A call of load that supplies metadata
\* has changed scene.canvas.spinner.processes by nothing once its metadata has
\* been processed or its fetch has failed, so the counter stands at its value
\* before the calls plus one for each call still waiting for its metadata, and
\* never below the value before the calls.
C40_BusyCounterBalanced ==
    svg.op = "load" =>
        /\ svg.processes = svg.in.processes + Cardinality(Fetching)
        /\ svg.processes >= svg.in.processes

====
